---- MODULE Spec2Model ----
(***************************************************************************)
(* Workspace path model and in-memory version-control engine of the       *)
(* editor store (src/src/store/useFileStore.ts).                           *)
(*                                                                         *)
(* Strings that the code takes apart (paths, branch names, commit          *)
(* messages) are sequences of one-character strings, so that normalize,    *)
(* split, trim and the '-N' suffix are computed as the code computes       *)
(* them.  File contents are only ever compared, so they are plain strings. *)
(***************************************************************************)
EXTENDS Integers, Sequences, FiniteSets

(***************************************************************************)
(* Strings                                                                 *)
(***************************************************************************)

\* Characters String.prototype.trim removes (the ones the model's inputs use).
Whitespace == {" "}

\* Position of a character in the collation localeCompare applies with
\* sensitivity 'base': whitespace, punctuation, digits, letters; upper and
\* lower case of a letter compare equal.
Collation ==
  << {" "}, {"_"}, {"-"}, {"!"}, {"."}, {"/"}, {"\\"},
     {"0"}, {"1"}, {"2"}, {"3"}, {"4"}, {"5"}, {"6"}, {"7"}, {"8"}, {"9"},
     {"a", "A"}, {"b"}, {"c"}, {"d"}, {"e"}, {"f"}, {"i"}, {"j"}, {"l"}, {"m"},
     {"n"}, {"o", "O"}, {"r"}, {"s", "S"}, {"t", "T"}, {"u"}, {"v"}, {"x"} >>

RankTable ==
  [c \in UNION {Collation[i] : i \in 1..Len(Collation)} |->
     CHOOSE i \in 1..Len(Collation) : c \in Collation[i]]

Rank(c) == RankTable[c]

\* a.localeCompare(b, undefined, {sensitivity: 'base'}) < 0
RECURSIVE LocaleLess(_, _)
LocaleLess(a, b) ==
  IF b = <<>> THEN FALSE
  ELSE IF a = <<>> THEN TRUE
  ELSE IF Rank(Head(a)) # Rank(Head(b)) THEN Rank(Head(a)) < Rank(Head(b))
  ELSE LocaleLess(Tail(a), Tail(b))

\* Array.prototype.sort is stable: an element goes after the elements that
\* do not compare greater than it.
RECURSIVE InsertSorted(_, _)
InsertSorted(p, sorted) ==
  IF sorted = <<>> THEN <<p>>
  ELSE IF LocaleLess(p, Head(sorted)) THEN <<p>> \o sorted
  ELSE <<Head(sorted)>> \o InsertSorted(p, Tail(sorted))

RECURSIVE SortFrom(_, _)
SortFrom(paths, sorted) ==
  IF paths = <<>> THEN sorted
  ELSE SortFrom(Tail(paths), InsertSorted(Head(paths), sorted))

sortPaths(paths) == SortFrom(paths, <<>>)

\* Array.from(new Set(array)): first occurrences, in order.
Dedup(s) ==
  LET indexed == [i \in 1..Len(s) |-> <<i, s[i]>>]
      IsFirst(entry) == \A j \in 1..(entry[1] - 1) : s[j] # entry[2]
      firsts  == SelectSeq(indexed, IsFirst)
  IN  [k \in 1..Len(firsts) |-> firsts[k][2]]

Range(s) == {s[i] : i \in 1..Len(s)}

\* str.replace(/\\/g, '/')
ReplaceBackslashes(s) == [i \in 1..Len(s) |-> IF s[i] = "\\" THEN "/" ELSE s[i]]

\* str.split(sep) for a one-character separator: always at least one piece.
RECURSIVE Split(_, _)
Split(s, sep) ==
  IF \A i \in 1..Len(s) : s[i] # sep THEN <<s>>
  ELSE LET k == CHOOSE i \in 1..Len(s) :
                  s[i] = sep /\ \A j \in 1..(i - 1) : s[j] # sep
       IN  <<SubSeq(s, 1, k - 1)>> \o Split(SubSeq(s, k + 1, Len(s)), sep)

\* pieces.join(sep)
RECURSIVE Join(_, _)
Join(pieces, sep) ==
  IF pieces = <<>> THEN <<>>
  ELSE IF Len(pieces) = 1 THEN pieces[1]
  ELSE pieces[1] \o <<sep>> \o Join(Tail(pieces), sep)

\* str.trim()
RECURSIVE TrimStart(_)
TrimStart(s) ==
  IF s # <<>> /\ Head(s) \in Whitespace THEN TrimStart(Tail(s)) ELSE s

RECURSIVE TrimEnd(_)
TrimEnd(s) ==
  IF s # <<>> /\ s[Len(s)] \in Whitespace
  THEN TrimEnd(SubSeq(s, 1, Len(s) - 1)) ELSE s

Trim(s) == TrimEnd(TrimStart(s))

\* str.startsWith(prefix)
StartsWith(s, prefix) ==
  Len(prefix) <= Len(s) /\ SubSeq(s, 1, Len(prefix)) = prefix

\* str.slice(n), n counted from 0
SliceFrom(s, n) == SubSeq(s, n + 1, Len(s))

\* str.lastIndexOf(c), counted from 0; -1 when c does not occur
lastIndexOf(s, c) ==
  IF \A i \in 1..Len(s) : s[i] # c THEN -1
  ELSE (CHOOSE i \in 1..Len(s) :
          s[i] = c /\ \A j \in (i + 1)..Len(s) : s[j] # c) - 1

\* str.toLowerCase()
LowerOf(c) ==
  CASE c = "A" -> "a"
    [] c = "S" -> "s"
    [] c = "T" -> "t"
    [] OTHER   -> c

toLowerCase(s) == [i \in 1..Len(s) |-> LowerOf(s[i])]

\* An enumeration of a finite set (Object.keys, Array.from(set)); every use
\* sorts the result.
RECURSIVE SetToSeq(_)
SetToSeq(S) ==
  IF S = {} THEN <<>>
  ELSE LET x == CHOOSE y \in S : TRUE IN <<x>> \o SetToSeq(S \ {x})

\* `${index}`: decimal digits of a positive integer
DigitChars == <<"0", "1", "2", "3", "4", "5", "6", "7", "8", "9">>

RECURSIVE ToDecimal(_)
ToDecimal(n) ==
  IF n < 10 THEN <<DigitChars[n + 1]>>
  ELSE Append(ToDecimal(n \div 10), DigitChars[(n % 10) + 1])

(***************************************************************************)
(* PathModel                                                               *)
(***************************************************************************)

\* A variant that keeps the empty segments
normalizeWorkspacePathKeepingEmpty(rawPath) ==
  LET segments == Split(ReplaceBackslashes(rawPath), "/")
      trimmed  == [i \in 1..Len(segments) |-> Trim(segments[i])]
  IN  Join(trimmed, "/")

\* A variant that does not trim the segments
normalizeWorkspacePathUntrimmed(rawPath) ==
  LET segments == Split(ReplaceBackslashes(rawPath), "/")
      NonEmpty(segment) == segment # <<>>
  IN  Join(SelectSeq(segments, NonEmpty), "/")

normalizeWorkspacePath(rawPath) ==
  LET segments == Split(ReplaceBackslashes(rawPath), "/")
      trimmed  == [i \in 1..Len(segments) |-> Trim(segments[i])]
      NonEmpty(segment) == segment # <<>>
  IN  Join(SelectSeq(trimmed, NonEmpty), "/")

getFileNameFromPath(path) ==
  LET segments == Split(normalizeWorkspacePath(path), "/")
  IN  segments[Len(segments)]

getParentFolderPath(path) ==
  LET segments == Split(normalizeWorkspacePath(path), "/")
  IN  Join(SubSeq(segments, 1, Len(segments) - 1), "/")

collectFolderHierarchy(path) ==
  LET normalized == normalizeWorkspacePath(path)
      segments   == Split(normalized, "/")
  IN  IF normalized = <<>> THEN <<>>
      ELSE [index \in 1..Len(segments) |-> Join(SubSeq(segments, 1, index), "/")]

collectAncestorFolders(path) == collectFolderHierarchy(getParentFolderPath(path))

\* A variant that splits at the last dot even when it begins the name
splitFileNameAtLeadingDot(name) ==
  LET lastDot == lastIndexOf(name, ".")
  IN  IF lastDot < 0 THEN [base |-> name, extension |-> <<>>]
      ELSE [base |-> SubSeq(name, 1, lastDot),
            extension |-> SliceFrom(name, lastDot)]

splitFileName(name) ==
  LET lastDot == lastIndexOf(name, ".")
  IN  IF lastDot <= 0 THEN [base |-> name, extension |-> <<>>]
      ELSE [base |-> SubSeq(name, 1, lastDot),
            extension |-> SliceFrom(name, lastDot)]

\* mergeFolderPaths(...groups): `groups` is the concatenation of the groups
mergeFolderPaths(groups) ==
  LET normalized == [i \in 1..Len(groups) |-> normalizeWorkspacePath(groups[i])]
      NonEmpty(path) == path # <<>>
  IN  sortPaths(Dedup(SelectSeq(normalized, NonEmpty)))

\* The loop of ensureUniquePath runs while index < 1000.
IndexLimit == 1000

\* `${base}-${index}${extension}` under the parent folder
candidatePath(parent, base, extension, index) ==
  LET candidateName == base \o <<"-">> \o ToDecimal(index) \o extension
  IN  IF parent # <<>> THEN parent \o <<"/">> \o candidateName ELSE candidateName

\* A variant of the loop that goes on to index IndexLimit when every
\* candidate before it is taken
firstFreeCandidateBeyondLimit(normalized, parent, base, extension, taken) ==
  LET Free(index) == candidatePath(parent, base, extension, index) \notin taken
  IN  IF \E index \in 1..(IndexLimit - 1) : Free(index)
      THEN candidatePath(parent, base, extension,
             CHOOSE index \in 1..(IndexLimit - 1) :
               Free(index) /\ \A earlier \in 1..(index - 1) : ~Free(earlier))
      ELSE candidatePath(parent, base, extension, IndexLimit)

\* The while loop of ensureUniquePath: the first candidate, index 1 to
\* IndexLimit - 1, that is not taken; the normalized path when all are taken.
firstFreeCandidate(normalized, parent, base, extension, taken) ==
  LET Free(index) == candidatePath(parent, base, extension, index) \notin taken
  IN  IF \E index \in 1..(IndexLimit - 1) : Free(index)
      THEN candidatePath(parent, base, extension,
             CHOOSE index \in 1..(IndexLimit - 1) :
               Free(index) /\ \A earlier \in 1..(index - 1) : ~Free(earlier))
      ELSE normalized

\* A variant that returns the normalized path whether or not it is taken
ensureUniquePathKeepingPath(path, taken) == normalizeWorkspacePath(path)

\* ensureUniquePath(path, hasPath) with hasPath(candidate) = candidate \in taken
ensureUniquePath(path, taken) ==
  LET normalized == normalizeWorkspacePath(path)
      parent     == getParentFolderPath(normalized)
      parts      == splitFileName(getFileNameFromPath(normalized))
  IN  IF normalized = <<>> \/ normalized \notin taken THEN normalized
      ELSE firstFreeCandidate(normalized, parent, parts.base, parts.extension, taken)

\* The language names the switch of inferLanguageFromPath returns
Typescript == <<"t", "y", "p", "e", "s", "c", "r", "i", "p", "t">>
Javascript == <<"j", "a", "v", "a", "s", "c", "r", "i", "p", "t">>
Css        == <<"c", "s", "s">>
Html       == <<"h", "t", "m", "l">>
Json       == <<"j", "s", "o", "n">>
Markdown   == <<"m", "a", "r", "k", "d", "o", "w", "n">>
Plaintext  == <<"p", "l", "a", "i", "n", "t", "e", "x", "t">>

\* A variant that compares the extension as it is written
inferLanguageFromPathCaseSensitive(path) ==
  LET pieces    == Split(getFileNameFromPath(path), ".")
      extension == pieces[Len(pieces)]
  IN  CASE extension \in {<<"t", "s">>, <<"t", "s", "x">>}  -> Typescript
        [] extension \in {<<"j", "s">>, <<"j", "s", "x">>}  -> Javascript
        [] extension = <<"c", "s", "s">>                    -> Css
        [] extension = <<"h", "t", "m", "l">>               -> Html
        [] extension = <<"j", "s", "o", "n">>               -> Json
        [] extension = <<"m", "d">>                         -> Markdown
        [] OTHER                                            -> Plaintext

inferLanguageFromPath(path) ==
  LET pieces    == Split(getFileNameFromPath(path), ".")
      extension == toLowerCase(pieces[Len(pieces)])
  IN  CASE extension \in {<<"t", "s">>, <<"t", "s", "x">>}  -> Typescript
        [] extension \in {<<"j", "s">>, <<"j", "s", "x">>}  -> Javascript
        [] extension = <<"c", "s", "s">>                    -> Css
        [] extension = <<"h", "t", "m", "l">>               -> Html
        [] extension = <<"j", "s", "o", "n">>               -> Json
        [] extension = <<"m", "d">>                         -> Markdown
        [] OTHER                                            -> Plaintext

\* array.forEach(... .forEach(push)): the concatenation of seqs[lo..hi]
RECURSIVE ConcatRange(_, _, _)
ConcatRange(seqs, lo, hi) ==
  IF lo > hi THEN <<>>
  ELSE IF lo = hi THEN seqs[lo]
  ELSE ConcatRange(seqs, lo, (lo + hi) \div 2)
       \o ConcatRange(seqs, ((lo + hi) \div 2) + 1, hi)

ConcatAll(seqs) == ConcatRange(seqs, 1, Len(seqs))

inferFolderPathsFromFiles(fs) ==
  sortPaths(Dedup(ConcatAll([i \in 1..Len(fs) |-> collectAncestorFolders(fs[i].path)])))

\* A variant that keeps the desired path whether or not a file already has it
ensureUniqueFilePathUnchecked(path, fs, excludeFileId) == normalizeWorkspacePath(path)

ensureUniqueFilePath(path, fs, excludeFileId) ==
  ensureUniquePath(path,
    {fs[i].path : i \in {j \in 1..Len(fs) : fs[j].id # excludeFileId}})

createFile(id, path, language, content, savedContent) ==
  LET normalizedPath == normalizeWorkspacePath(path)
  IN  [id |-> id, path |-> normalizedPath,
       name |-> getFileNameFromPath(normalizedPath),
       content |-> content, savedContent |-> savedContent,
       language |-> language]

\* The name of the accessor of an object's prototype.  Assigning a string to
\* tree['__proto__'] on an object literal calls the inherited setter, which
\* ignores a value that is not an object: no entry is made.
ProtoName == <<"_", "_", "p", "r", "o", "t", "o", "_", "_">>

\* files.reduce: a later file with the same path overwrites the entry; a
\* file whose path is __proto__ makes no entry
createTreeFromFiles(fs, useSavedContent) ==
  [path \in {fs[i].path : i \in 1..Len(fs)} \ {ProtoName} |->
     LET last == CHOOSE i \in 1..Len(fs) :
                   fs[i].path = path /\ \A j \in (i + 1)..Len(fs) : fs[j].path # path
     IN  IF useSavedContent THEN fs[last].savedContent ELSE fs[last].content]

\* A variant of createFilesFromTree whose files have the paths of the tree
\* and no content
createFilesFromTreeWithoutContent(tree, ids) ==
  LET paths == sortPaths(SetToSeq(DOMAIN tree))
  IN  [i \in 1..Len(paths) |->
         createFile(ids[i], paths[i], inferLanguageFromPath(paths[i]), "", "")]

\* A variant that creates the files as addFile does, with nothing saved
createFilesFromTreeUnsaved(tree, ids) ==
  LET paths == sortPaths(SetToSeq(DOMAIN tree))
  IN  [i \in 1..Len(paths) |->
         createFile(ids[i], paths[i], inferLanguageFromPath(paths[i]),
                    tree[paths[i]], "")]

\* `ids` are the values crypto.randomUUID() returns, one per file
createFilesFromTree(tree, ids) ==
  LET paths == sortPaths(SetToSeq(DOMAIN tree))
  IN  [i \in 1..Len(paths) |->
         createFile(ids[i], paths[i], inferLanguageFromPath(paths[i]),
                    tree[paths[i]], tree[paths[i]])]

\* The property names every object literal inherits from Object.prototype
ObjectPrototypeKeys ==
  {<<"c", "o", "n", "s", "t", "r", "u", "c", "t", "o", "r">>,
   <<"h", "a", "s", "O", "w", "n", "P", "r", "o", "p", "e", "r", "t", "y">>,
   <<"i", "s", "P", "r", "o", "t", "o", "t", "y", "p", "e", "O", "f">>,
   <<"p", "r", "o", "p", "e", "r", "t", "y", "I", "s", "E", "n", "u", "m", "e", "r", "a", "b", "l", "e">>,
   <<"t", "o", "L", "o", "c", "a", "l", "e", "S", "t", "r", "i", "n", "g">>,
   <<"t", "o", "S", "t", "r", "i", "n", "g">>,
   <<"v", "a", "l", "u", "e", "O", "f">>,
   <<"_", "_", "p", "r", "o", "t", "o", "_", "_">>,
   <<"_", "_", "d", "e", "f", "i", "n", "e", "G", "e", "t", "t", "e", "r", "_", "_">>,
   <<"_", "_", "d", "e", "f", "i", "n", "e", "S", "e", "t", "t", "e", "r", "_", "_">>,
   <<"_", "_", "l", "o", "o", "k", "u", "p", "G", "e", "t", "t", "e", "r", "_", "_">>,
   <<"_", "_", "l", "o", "o", "k", "u", "p", "S", "e", "t", "t", "e", "r", "_", "_">>}

\* Whether object[key] is truthy, for an object literal whose own values are
\* objects: the key is its own or inherited
HasProperty(object, key) == key \in DOMAIN object \/ key \in ObjectPrototypeKeys

\* What tree[path] is for a path that the tree does not have but every
\* object inherits: a function, which is not undefined and equals no content
InheritedMember == "function"

\* tree[path]: <<content>> when the key is present, <<>> for undefined
Lookup(tree, path) ==
  IF path \in DOMAIN tree THEN <<tree[path]>>
  ELSE IF path \in ObjectPrototypeKeys THEN <<InheritedMember>>
  ELSE <<>>

\* A variant that tests the contents for truthiness instead of undefined, so
\* that an empty file counts as absent
resolveGitChangeTypeFalsy(baseContent, workingContent) ==
  LET Absent(content) == content = <<>> \/ content = <<"">>
  IN  IF Absent(baseContent) /\ ~Absent(workingContent) THEN "added"
      ELSE IF ~Absent(baseContent) /\ Absent(workingContent) THEN "deleted"
      ELSE IF ~Absent(baseContent) /\ ~Absent(workingContent)
              /\ baseContent # workingContent
      THEN "modified"
      ELSE "null"

resolveGitChangeType(baseContent, workingContent) ==
  IF baseContent = <<>> /\ workingContent # <<>> THEN "added"
  ELSE IF baseContent # <<>> /\ workingContent = <<>> THEN "deleted"
  ELSE IF baseContent # <<>> /\ workingContent # <<>> /\ baseContent # workingContent
  THEN "modified"
  ELSE "null"

\* A variant that reports every staged path, changed or not
getGitChangesKeepingStale(fs, headTree, stagedPaths) ==
  LET workingTree == createTreeFromFiles(fs, FALSE)
      stagedSet   == {normalizeWorkspacePath(stagedPaths[i]) : i \in 1..Len(stagedPaths)}
                       \ {<<>>}
      allPaths    == sortPaths(SetToSeq(DOMAIN headTree \cup DOMAIN workingTree))
      changes     == [i \in 1..Len(allPaths) |->
                        [path   |-> allPaths[i],
                         type   |-> resolveGitChangeType(Lookup(headTree, allPaths[i]),
                                                         Lookup(workingTree, allPaths[i])),
                         staged |-> allPaths[i] \in stagedSet]]
      IsChange(change) == change.type # "null" \/ change.staged
  IN  [i \in 1..Len(SelectSeq(changes, IsChange)) |->
         LET change == SelectSeq(changes, IsChange)[i]
         IN  IF change.type = "null" THEN [change EXCEPT !.type = "modified"] ELSE change]

getGitChanges(fs, headTree, stagedPaths) ==
  LET workingTree == createTreeFromFiles(fs, FALSE)
      stagedSet   == {normalizeWorkspacePath(stagedPaths[i]) : i \in 1..Len(stagedPaths)}
                       \ {<<>>}
      allPaths    == sortPaths(SetToSeq(DOMAIN headTree \cup DOMAIN workingTree))
      changes     == [i \in 1..Len(allPaths) |->
                        [path   |-> allPaths[i],
                         type   |-> resolveGitChangeType(Lookup(headTree, allPaths[i]),
                                                         Lookup(workingTree, allPaths[i])),
                         staged |-> allPaths[i] \in stagedSet]]
      IsChange(change) == change.type # "null"
  IN  SelectSeq(changes, IsChange)

\* Characters of the class [A-Za-z0-9._/-]
BranchNameChars ==
  {"a", "b", "c", "d", "e", "f", "g", "h", "i", "j", "k", "l", "m",
   "n", "o", "p", "q", "r", "s", "t", "u", "v", "w", "x", "y", "z",
   "A", "B", "C", "D", "E", "F", "G", "H", "I", "J", "K", "L", "M",
   "N", "O", "P", "Q", "R", "S", "T", "U", "V", "W", "X", "Y", "Z",
   "0", "1", "2", "3", "4", "5", "6", "7", "8", "9", ".", "_", "/",
   "-"}

\* str.replace(/\s+/g, '-')
RECURSIVE ReplaceWhitespaceRuns(_)
ReplaceWhitespaceRuns(s) ==
  IF s = <<>> THEN <<>>
  ELSE IF Head(s) \in Whitespace
  THEN <<"-">> \o ReplaceWhitespaceRuns(TrimStart(s))
  ELSE <<Head(s)>> \o ReplaceWhitespaceRuns(Tail(s))

sanitizeBranchName(value) ==
  LET trimmed == ReplaceWhitespaceRuns(Trim(value))
  IN  IF trimmed = <<>> THEN <<>>
      ELSE IF \E i \in 1..Len(trimmed) : trimmed[i] \notin BranchNameChars THEN <<>>
      ELSE normalizeWorkspacePath(trimmed)

(***************************************************************************)
(* The store                                                               *)
(***************************************************************************)

VARIABLES
  files,            \* File[]: records id, name, path, content, savedContent, language
  folders,          \* string[]: the folder list, kept sorted
  activeFileId,     \* a file id, or Null
  gitBranches,      \* Record<string, {tree, commits}>
  gitCurrentBranch, \* string
  gitStagedPaths,   \* string[]
  storage,          \* localStorage: the four keys the store persists
  panel             \* the source-control panel: its state, its refs, its remote calls

\* The variables of the store
vars == <<files, folders, activeFileId, gitBranches, gitCurrentBranch,
          gitStagedPaths, storage>>

allVars == <<files, folders, activeFileId, gitBranches, gitCurrentBranch,
             gitStagedPaths, storage, panel>>

\* activeFileId: null
Null == 0

\* localStorage: a key holds <<value>>, or <<>> when it was never set or was
\* removed
NoItem == <<>>

persistFiles(store, fs) == [store EXCEPT !.files = <<fs>>]

persistFolders(store, paths) == [store EXCEPT !.folders = <<paths>>]

persistActiveFileId(store, id) ==
  [store EXCEPT !.activeFileId = IF id # Null THEN <<id>> ELSE NoItem]

\* Values crypto.randomUUID() returns for n new files: ids no file of fs has.
FreshIds(fs, n) ==
  LET usedIds == {fs[i].id : i \in 1..Len(fs)}
      free    == (1..(Len(fs) + n)) \ usedIds
      RECURSIVE Smallest(_, _)
      Smallest(S, k) ==
        IF k = 0 THEN <<>>
        ELSE LET m == CHOOSE x \in S : \A y \in S : x <= y
             IN  <<m>> \o Smallest(S \ {m}, k - 1)
  IN  Smallest(free, n)

\* Every commit recorded on some branch
AllCommits(branches) ==
  UNION {Range(branches[name].commits) : name \in DOMAIN branches}

persistGitState(store, currentBranch, branches, stagedPaths) ==
  [store EXCEPT !.git = <<[currentBranch |-> currentBranch, branches |-> branches,
                           stagedPaths |-> stagedPaths]>>]

(***************************************************************************)
(* Workspace operations                                                    *)
(***************************************************************************)

\* A variant of the new file list of addFile that puts the new file first
addFileNextFilesFirst(newFile) == <<newFile>> \o files

\* [...state.files, newFile]
addFileNextFiles(newFile) == Append(files, newFile)

addFile(path, language) ==
  LET normalizedPath == normalizeWorkspacePath(path)
      uniquePath     == ensureUniqueFilePath(normalizedPath, files, Null)
      nextLanguage   == IF Trim(language) # <<>> THEN Trim(language)
                        ELSE inferLanguageFromPath(uniquePath)
      newFile        == createFile(FreshIds(files, 1)[1], uniquePath, nextLanguage, "", "")
      nextFiles      == addFileNextFiles(newFile)
      nextFolders    == mergeFolderPaths(folders \o collectAncestorFolders(uniquePath))
  IN  /\ IF normalizedPath = <<>>
         THEN UNCHANGED <<files, folders, activeFileId, storage>>
         ELSE /\ files' = nextFiles
              /\ folders' = nextFolders
              /\ activeFileId' = newFile.id
              /\ storage' = persistActiveFileId(
                             persistFolders(persistFiles(storage, nextFiles), nextFolders),
                             newFile.id)
      /\ UNCHANGED <<gitBranches, gitCurrentBranch, gitStagedPaths>>

addFolder(path) ==
  LET normalizedPath == normalizeWorkspacePath(path)
      nextFolders    == mergeFolderPaths(folders \o collectFolderHierarchy(normalizedPath))
  IN  /\ IF normalizedPath = <<>>
         THEN UNCHANGED <<folders, storage>>
         ELSE /\ folders' = nextFolders
              /\ storage' = persistFolders(storage, nextFolders)
      /\ UNCHANGED <<files, activeFileId, gitBranches, gitCurrentBranch, gitStagedPaths>>

\* A variant of the map of renameFile that renames the first file, whatever
\* its id
renameFileNextFilesAtFirst(id, nextPath) ==
  [i \in 1..Len(files) |->
     IF i = 1
     THEN [files[i] EXCEPT !.path = nextPath,
                           !.name = getFileNameFromPath(nextPath),
                           !.language = inferLanguageFromPath(nextPath)]
     ELSE files[i]]

\* state.files.map of renameFile
renameFileNextFiles(id, nextPath) ==
  [i \in 1..Len(files) |->
     IF files[i].id = id
     THEN [files[i] EXCEPT !.path = nextPath,
                           !.name = getFileNameFromPath(nextPath),
                           !.language = inferLanguageFromPath(nextPath)]
     ELSE files[i]]

renameFile(id, path) ==
  LET exists         == \E i \in 1..Len(files) : files[i].id = id
      existing       == files[CHOOSE i \in 1..Len(files) :
                                files[i].id = id /\ \A j \in 1..(i - 1) : files[j].id # id]
      normalizedPath == normalizeWorkspacePath(path)
      nextPath       == ensureUniqueFilePath(normalizedPath, files, id)
      nextFiles      == renameFileNextFiles(id, nextPath)
      nextFolders    == mergeFolderPaths(folders \o collectAncestorFolders(nextPath))
  IN  /\ IF ~exists \/ normalizedPath = <<>> \/ nextPath = existing.path
         THEN UNCHANGED <<files, folders, storage>>
         ELSE /\ files' = nextFiles
              /\ folders' = nextFolders
              /\ storage' = persistFolders(persistFiles(storage, nextFiles), nextFolders)
      /\ UNCHANGED <<activeFileId, gitBranches, gitCurrentBranch, gitStagedPaths>>

\* state.files.map of renameFolder: the files from position i on, with the
\* paths assigned so far added to usedPaths.  The files up to the next moved
\* file are returned as they are.
RECURSIVE moveFiles(_, _, _, _, _, _)
moveFiles(fs, i, movedFileIds, usedPaths, normalizedFrom, normalizedTo) ==
  LET Moved(k) == fs[k].id \in movedFileIds
  IN  IF \A k \in i..Len(fs) : ~Moved(k) THEN SubSeq(fs, i, Len(fs))
      ELSE LET k == CHOOSE n \in i..Len(fs) : Moved(n) /\ \A m \in i..(n - 1) : ~Moved(m)
               desiredPath == normalizedTo \o SliceFrom(fs[k].path, Len(normalizedFrom))
               uniquePath  == ensureUniquePath(desiredPath, usedPaths)
           IN  SubSeq(fs, i, k - 1)
               \o <<[fs[k] EXCEPT !.path = uniquePath,
                                  !.name = getFileNameFromPath(uniquePath),
                                  !.language = inferLanguageFromPath(uniquePath)]>>
               \o moveFiles(fs, k + 1, movedFileIds, usedPaths \cup {uniquePath},
                            normalizedFrom, normalizedTo)

\* A variant of the validation of renameFolder without the test for a target
\* inside the folder
renameFolderRejectsEqualOnly(normalizedFrom, normalizedTo) ==
  normalizedFrom = <<>> \/ normalizedTo = <<>> \/ normalizedFrom = normalizedTo

\* The two validations of renameFolder that return {} before the folders are
\* looked at
renameFolderRejects(normalizedFrom, normalizedTo) ==
  \/ normalizedFrom = <<>> \/ normalizedTo = <<>> \/ normalizedFrom = normalizedTo
  \/ StartsWith(normalizedTo, normalizedFrom \o <<"/">>)

\* renameFolder is declared (fromPath, toPath) => void: it returns what set()
\* returns, no value, on every path
renameFolderReturns(fromPath, toPath) == NoItem

\* A variant of the folders of renameFolder that keeps the folders at and
\* under the old path
renameFolderKeepingFolders(allFolders, nextFiles, normalizedFrom, normalizedTo) ==
  LET moveFolder(path) == path = normalizedFrom \/ StartsWith(path, normalizedFrom \o <<"/">>)
      moving           == SelectSeq(allFolders, moveFolder)
      movedFolders     == [i \in 1..Len(moving) |->
                             normalizedTo \o SliceFrom(moving[i], Len(normalizedFrom))]
  IN  mergeFolderPaths(allFolders \o movedFolders
                       \o collectFolderHierarchy(normalizedTo)
                       \o inferFolderPathsFromFiles(nextFiles))

\* movedFolders, untouchedFolders and nextFolders of renameFolder
renameFolderNextFolders(allFolders, nextFiles, normalizedFrom, normalizedTo) ==
  LET moveFolder(path) == path = normalizedFrom \/ StartsWith(path, normalizedFrom \o <<"/">>)
      keepFolder(path) == ~moveFolder(path)
      moving           == SelectSeq(allFolders, moveFolder)
      movedFolders     == [i \in 1..Len(moving) |->
                             normalizedTo \o SliceFrom(moving[i], Len(normalizedFrom))]
      untouchedFolders == SelectSeq(allFolders, keepFolder)
  IN  mergeFolderPaths(untouchedFolders \o movedFolders
                       \o collectFolderHierarchy(normalizedTo)
                       \o inferFolderPathsFromFiles(nextFiles))

renameFolder(fromPath, toPath) ==
  LET normalizedFrom == normalizeWorkspacePath(fromPath)
      normalizedTo   == normalizeWorkspacePath(toPath)
      allFolders     == mergeFolderPaths(folders \o inferFolderPathsFromFiles(files))
      moveFolder(path) == path = normalizedFrom \/ StartsWith(path, normalizedFrom \o <<"/">>)
      movedFileIds   == {files[i].id : i \in {j \in 1..Len(files) :
                            StartsWith(files[j].path, normalizedFrom \o <<"/">>)}}
      usedPaths      == {files[i].path : i \in {j \in 1..Len(files) :
                            files[j].id \notin movedFileIds}}
      nextFiles      == moveFiles(files, 1, movedFileIds, usedPaths, normalizedFrom, normalizedTo)
      moving         == SelectSeq(allFolders, moveFolder)
      nextFolders    == renameFolderNextFolders(allFolders, nextFiles,
                                                normalizedFrom, normalizedTo)
  IN  /\ IF renameFolderRejects(normalizedFrom, normalizedTo) \/ moving = <<>>
         THEN UNCHANGED <<files, folders, storage>>
         ELSE /\ files' = nextFiles
              /\ folders' = nextFolders
              /\ storage' = persistFolders(persistFiles(storage, nextFiles), nextFolders)
      /\ UNCHANGED <<activeFileId, gitBranches, gitCurrentBranch, gitStagedPaths>>

applyFileEdit(path, content) ==
  LET normalizedPath == normalizeWorkspacePath(path)
      exists         == \E i \in 1..Len(files) : files[i].path = normalizedPath
      existing       == files[CHOOSE i \in 1..Len(files) :
                                /\ files[i].path = normalizedPath
                                /\ \A j \in 1..(i - 1) : files[j].path # normalizedPath]
      nextFiles      == IF exists
                        THEN [i \in 1..Len(files) |->
                                IF files[i].id = existing.id
                                THEN [files[i] EXCEPT !.content = content]
                                ELSE files[i]]
                        ELSE Append(files,
                               createFile(FreshIds(files, 1)[1], normalizedPath,
                                          inferLanguageFromPath(normalizedPath),
                                          content, content))
      nextActiveId   == IF exists THEN existing.id ELSE nextFiles[Len(nextFiles)].id
      nextFolders    == mergeFolderPaths(folders \o collectAncestorFolders(normalizedPath))
  IN  /\ IF normalizedPath = <<>>
         THEN UNCHANGED <<files, folders, activeFileId, storage>>
         ELSE /\ files' = nextFiles
              /\ folders' = nextFolders
              /\ activeFileId' = nextActiveId
              /\ storage' = persistActiveFileId(
                             persistFolders(persistFiles(storage, nextFiles), nextFolders),
                             nextActiveId)
      /\ UNCHANGED <<gitBranches, gitCurrentBranch, gitStagedPaths>>

saveFile(id) ==
  LET changed   == \E i \in 1..Len(files) :
                     files[i].id = id /\ files[i].savedContent # files[i].content
      nextFiles == [i \in 1..Len(files) |->
                      IF files[i].id # id \/ files[i].savedContent = files[i].content
                      THEN files[i]
                      ELSE [files[i] EXCEPT !.savedContent = files[i].content]]
  IN  /\ IF ~changed
         THEN UNCHANGED <<files, storage>>
         ELSE /\ files' = nextFiles
              /\ storage' = persistFiles(storage, nextFiles)
      /\ UNCHANGED <<folders, activeFileId, gitBranches, gitCurrentBranch, gitStagedPaths>>

\* A variant of the next active file of deleteFile that takes the last file left
deleteFileNextActiveLast(id, nextFiles) ==
  IF activeFileId = id
  THEN (IF nextFiles # <<>> THEN nextFiles[Len(nextFiles)].id ELSE Null)
  ELSE activeFileId

\* A variant of the next active file of deleteFile that leaves no file active
\* when the active file is deleted
deleteFileNextActiveNone(id, nextFiles) ==
  IF activeFileId = id THEN Null ELSE activeFileId

\* state.activeFileId === id ? (nextFiles[0]?.id ?? null) : state.activeFileId
deleteFileNextActive(id, nextFiles) ==
  IF activeFileId = id
  THEN (IF nextFiles # <<>> THEN nextFiles[1].id ELSE Null)
  ELSE activeFileId

deleteFile(id) ==
  LET KeepFile(file) == file.id # id
      nextFiles  == SelectSeq(files, KeepFile)
      nextActive == deleteFileNextActive(id, nextFiles)
  IN  /\ files' = nextFiles
      /\ activeFileId' = nextActive
      /\ storage' = persistActiveFileId(persistFiles(storage, nextFiles), nextActive)
      /\ UNCHANGED <<folders, gitBranches, gitCurrentBranch, gitStagedPaths>>

\* A variant that drops the staged paths that stop differing
updateFileContentDroppingStale(id, content) ==
  LET nextFiles == [i \in 1..Len(files) |->
                      IF files[i].id = id THEN [files[i] EXCEPT !.content = content]
                      ELSE files[i]]
      tree      == IF gitCurrentBranch \in DOMAIN gitBranches
                   THEN gitBranches[gitCurrentBranch].tree ELSE [path \in {} |-> ""]
      changes   == getGitChanges(nextFiles, tree, gitStagedPaths)
      Differs(path) == \E i \in 1..Len(changes) : changes[i].path = path
  IN  /\ files' = nextFiles
      /\ storage' = persistFiles(storage, nextFiles)
      /\ gitStagedPaths' = SelectSeq(gitStagedPaths, Differs)
      /\ UNCHANGED <<folders, activeFileId, gitBranches, gitCurrentBranch>>

updateFileContent(id, content) ==
  LET nextFiles == [i \in 1..Len(files) |->
                      IF files[i].id = id THEN [files[i] EXCEPT !.content = content]
                      ELSE files[i]]
  IN  /\ files' = nextFiles
      /\ storage' = persistFiles(storage, nextFiles)
      /\ UNCHANGED <<folders, activeFileId, gitBranches, gitCurrentBranch, gitStagedPaths>>

setActiveFile(id) ==
  /\ IF ~\E i \in 1..Len(files) : files[i].id = id
     THEN UNCHANGED <<activeFileId, storage>>
     ELSE /\ activeFileId' = id
          /\ storage' = persistActiveFileId(storage, id)
  /\ UNCHANGED <<files, folders, gitBranches, gitCurrentBranch, gitStagedPaths>>

(***************************************************************************)
(* Version-control operations                                              *)
(***************************************************************************)

EmptyTree == [path \in {} |-> ""]

\* state.gitBranches[state.gitCurrentBranch]?.tree ?? {}
currentTree ==
  IF gitCurrentBranch \in DOMAIN gitBranches
  THEN gitBranches[gitCurrentBranch].tree ELSE EmptyTree

\* A variant that accepts every path that is not blank
stageGitPathAcceptsAnyPath(path) == normalizeWorkspacePath(path) # <<>>

\* Whether stageGitPath gets past its two early returns
stageGitPathAccepts(path) ==
  LET normalizedPath == normalizeWorkspacePath(path)
      changes        == getGitChanges(files, currentTree, gitStagedPaths)
  IN  /\ normalizedPath # <<>>
      /\ \E i \in 1..Len(changes) : changes[i].path = normalizedPath

\* nextStagedPaths of stageGitPath
stageGitPathNextStagedPaths(path) ==
  sortPaths(Dedup(Append(gitStagedPaths, normalizeWorkspacePath(path))))

stageGitPath(path) ==
  LET nextStagedPaths == stageGitPathNextStagedPaths(path)
  IN  /\ IF ~stageGitPathAccepts(path)
         THEN UNCHANGED <<gitStagedPaths, storage>>
         ELSE /\ gitStagedPaths' = nextStagedPaths
              /\ storage' = persistGitState(storage, gitCurrentBranch, gitBranches, nextStagedPaths)
      /\ UNCHANGED <<files, folders, activeFileId, gitBranches, gitCurrentBranch>>

unstageGitPath(path) ==
  LET normalizedPath  == normalizeWorkspacePath(path)
      KeepEntry(entry) == entry # normalizedPath
      nextStagedPaths == SelectSeq(gitStagedPaths, KeepEntry)
  IN  /\ IF normalizedPath = <<>> \/ normalizedPath \notin Range(gitStagedPaths)
         THEN UNCHANGED <<gitStagedPaths, storage>>
         ELSE /\ gitStagedPaths' = nextStagedPaths
              /\ storage' = persistGitState(storage, gitCurrentBranch, gitBranches, nextStagedPaths)
      /\ UNCHANGED <<files, folders, activeFileId, gitBranches, gitCurrentBranch>>

\* A variant that adds the changed paths to the staged paths it finds
stageAllGitChangesKeepingStaged ==
  LET changes         == getGitChanges(files, currentTree, <<>>)
      allChangedPaths == [i \in 1..Len(changes) |-> changes[i].path]
  IN  sortPaths(Dedup(gitStagedPaths \o allChangedPaths))

\* nextStagedPaths of stageAllGitChanges
stageAllGitChangesNextStagedPaths ==
  LET changes         == getGitChanges(files, currentTree, <<>>)
      allChangedPaths == [i \in 1..Len(changes) |-> changes[i].path]
  IN  sortPaths(Dedup(allChangedPaths))

stageAllGitChanges ==
  LET nextStagedPaths == stageAllGitChangesNextStagedPaths
  IN  /\ gitStagedPaths' = nextStagedPaths
      /\ storage' = persistGitState(storage, gitCurrentBranch, gitBranches, nextStagedPaths)
      /\ UNCHANGED <<files, folders, activeFileId, gitBranches, gitCurrentBranch>>

unstageAllGitChanges ==
  /\ IF gitStagedPaths = <<>>
     THEN UNCHANGED <<gitStagedPaths, storage>>
     ELSE /\ gitStagedPaths' = <<>>
          /\ storage' = persistGitState(storage, gitCurrentBranch, gitBranches, <<>>)
  /\ UNCHANGED <<files, folders, activeFileId, gitBranches, gitCurrentBranch>>

\* A variant of the tree of a commit that takes the whole working tree,
\* staged or not
commitTreeOfWorkingTree(tree, workingTree, stagedChanges) == workingTree

\* A variant that writes the staged paths and forgets to remove the deleted ones
commitTreeKeepingDeleted(tree, workingTree, stagedChanges) ==
  LET written == {stagedChanges[i].path : i \in {j \in 1..Len(stagedChanges) :
                     stagedChanges[j].type # "deleted"}} \cap DOMAIN workingTree
  IN  [path \in DOMAIN tree \cup written |->
         IF path \in written THEN workingTree[path] ELSE tree[path]]

\* The tree commitGitChanges builds from the branch tree and the staged changes
commitTree(tree, workingTree, stagedChanges) ==
  LET deleted == {stagedChanges[i].path : i \in {j \in 1..Len(stagedChanges) :
                     stagedChanges[j].type = "deleted"}}
      written == {stagedChanges[i].path : i \in {j \in 1..Len(stagedChanges) :
                     stagedChanges[j].type # "deleted"}} \cap DOMAIN workingTree
  IN  [path \in (DOMAIN tree \ deleted) \cup written |->
         IF path \in written THEN workingTree[path] ELSE tree[path]]

\* What an operation that reports to its caller returns: {ok: true} or
\* {ok: false, error}.  An error that quotes a branch name is the sequence of
\* its pieces.
Ok == [ok |-> TRUE, error |-> ""]

Failed(error) == [ok |-> FALSE, error |-> error]

\* The operation returns nothing: it throws, before it has changed the state
Thrown(error) == [ok |-> FALSE, error |-> error, thrown |-> TRUE]

\* getGitChanges(...).filter((change) => change.staged) of commitGitChanges
stagedChanges ==
  LET IsStaged(change) == change.staged
  IN  SelectSeq(getGitChanges(files, currentTree, gitStagedPaths), IsStaged)

\* A variant that tests the message without trimming it
commitGitChangesReturnsUntrimmed(message) ==
  IF message = <<>> THEN Failed("Commit message is required.")
  ELSE IF ~HasProperty(gitBranches, gitCurrentBranch)
  THEN Failed("Current branch is unavailable.")
  ELSE IF gitCurrentBranch \notin DOMAIN gitBranches
  THEN Thrown("TypeError: Cannot convert undefined or null to object")
  ELSE IF stagedChanges = <<>>
  THEN Failed("Stage at least one change before committing.")
  ELSE Ok

\* A variant that tests the staged paths instead of the staged changes
commitGitChangesReturnsAnyStagedPath(message) ==
  IF Trim(message) = <<>> THEN Failed("Commit message is required.")
  ELSE IF ~HasProperty(gitBranches, gitCurrentBranch)
  THEN Failed("Current branch is unavailable.")
  ELSE IF gitCurrentBranch \notin DOMAIN gitBranches
  THEN Thrown("TypeError: Cannot convert undefined or null to object")
  ELSE IF gitStagedPaths = <<>>
  THEN Failed("Stage at least one change before committing.")
  ELSE Ok

commitGitChangesReturns(message) ==
  IF Trim(message) = <<>> THEN Failed("Commit message is required.")
  ELSE IF ~HasProperty(gitBranches, gitCurrentBranch)
  THEN Failed("Current branch is unavailable.")
  ELSE IF gitCurrentBranch \notin DOMAIN gitBranches
  THEN Thrown("TypeError: Cannot convert undefined or null to object")
  ELSE IF stagedChanges = <<>>
  THEN Failed("Stage at least one change before committing.")
  ELSE Ok

\* The GitCommit commitGitChanges creates.  crypto.randomUUID() gives an id no
\* commit has; Date.now() is a clock that the model ticks once per commit.
newCommit(message) ==
  LET made == Cardinality(AllCommits(gitBranches))
  IN  [id        |-> made + 1,
       branch    |-> gitCurrentBranch,
       message   |-> Trim(message),
       timestamp |-> made + 1,
       changes   |-> [i \in 1..Len(stagedChanges) |->
                        [path |-> stagedChanges[i].path,
                         type |-> stagedChanges[i].type]]]

\* A variant that keeps only the new commit on the current branch
branchesAfterCommitLatestOnly(branches, current, nextTree, commit) ==
  [name \in DOMAIN branches |->
     IF name = current
     THEN [tree |-> nextTree, commits |-> <<commit>>]
     ELSE branches[name]]

\* A variant in which a branch created from the current one still shares its
\* tree and commit list, so that a commit shows on both
branchesAfterCommitShared(branches, current, nextTree, commit) ==
  [name \in DOMAIN branches |->
     IF name = current \/ branches[name] = branches[current]
     THEN [tree |-> nextTree, commits |-> Append(branches[current].commits, commit)]
     ELSE branches[name]]

\* {...state.gitBranches, [state.gitCurrentBranch]: {tree, commits: [...commits, commit]}}
branchesAfterCommit(branches, current, nextTree, commit) ==
  [name \in DOMAIN branches |->
     IF name = current
     THEN [tree |-> nextTree, commits |-> Append(branches[name].commits, commit)]
     ELSE branches[name]]

commitGitChanges(message) ==
  LET workingTree  == createTreeFromFiles(files, FALSE)
      nextTree     == commitTree(currentTree, workingTree, stagedChanges)
      nextBranches == branchesAfterCommit(gitBranches, gitCurrentBranch, nextTree,
                                          newCommit(message))
  IN  IF ~commitGitChangesReturns(message).ok
      THEN UNCHANGED vars
      ELSE /\ gitBranches' = nextBranches
           /\ gitStagedPaths' = <<>>
           /\ storage' = persistGitState(storage, gitCurrentBranch, nextBranches, <<>>)
           /\ UNCHANGED <<files, folders, activeFileId, gitCurrentBranch>>

\* A variant without the test for an existing branch
createGitBranchReturnsOverwriting(name) ==
  IF sanitizeBranchName(name) = <<>>
  THEN Failed("Branch name can only contain letters, numbers, ., _, -, and /.")
  ELSE IF ~HasProperty(gitBranches, gitCurrentBranch)
  THEN Failed("Current branch is unavailable.")
  ELSE IF gitCurrentBranch \notin DOMAIN gitBranches
  THEN Thrown("TypeError: sourceBranch.commits is not iterable")
  ELSE Ok

createGitBranchReturns(name) ==
  IF sanitizeBranchName(name) = <<>>
  THEN Failed("Branch name can only contain letters, numbers, ., _, -, and /.")
  ELSE IF HasProperty(gitBranches, sanitizeBranchName(name))
  THEN Failed(<<"Branch \"", sanitizeBranchName(name), "\" already exists.">>)
  ELSE IF ~HasProperty(gitBranches, gitCurrentBranch)
  THEN Failed("Current branch is unavailable.")
  ELSE IF gitCurrentBranch \notin DOMAIN gitBranches
  THEN Thrown("TypeError: sourceBranch.commits is not iterable")
  ELSE Ok

\* A variant that gives the new branch the tree and no commit
branchesAfterCreateWithoutCommits(branches, normalizedName, sourceBranch) ==
  [name \in DOMAIN branches \cup {normalizedName} |->
     IF name = normalizedName
     THEN [tree |-> sourceBranch.tree, commits |-> <<>>]
     ELSE branches[name]]

\* {...state.gitBranches, [normalizedName]: {tree: {...tree}, commits: [...commits]}}
branchesAfterCreate(branches, normalizedName, sourceBranch) ==
  [name \in DOMAIN branches \cup {normalizedName} |->
     IF name = normalizedName
     THEN [tree |-> sourceBranch.tree, commits |-> sourceBranch.commits]
     ELSE branches[name]]

createGitBranch(name) ==
  LET normalizedName == sanitizeBranchName(name)
      nextBranches   == branchesAfterCreate(gitBranches, normalizedName,
                                            gitBranches[gitCurrentBranch])
  IN  IF ~createGitBranchReturns(name).ok
      THEN UNCHANGED vars
      ELSE /\ gitBranches' = nextBranches
           /\ storage' = persistGitState(storage, gitCurrentBranch, nextBranches,
                                         gitStagedPaths)
           /\ UNCHANGED <<files, folders, activeFileId, gitCurrentBranch, gitStagedPaths>>

\* A variant without the test for pending changes
switchGitBranchReturnsIgnoringChanges(name) ==
  IF sanitizeBranchName(name) = <<>> THEN Failed("Branch name is invalid.")
  ELSE IF ~HasProperty(gitBranches, sanitizeBranchName(name))
  THEN Failed(<<"Branch \"", sanitizeBranchName(name), "\" does not exist.">>)
  ELSE IF sanitizeBranchName(name) = gitCurrentBranch THEN Ok
  ELSE IF sanitizeBranchName(name) \notin DOMAIN gitBranches
  THEN Thrown("TypeError: Cannot convert undefined or null to object")
  ELSE Ok

\* A variant that tests for pending changes before it tests for the current
\* branch
switchGitBranchReturnsChangesFirst(name) ==
  IF sanitizeBranchName(name) = <<>> THEN Failed("Branch name is invalid.")
  ELSE IF ~HasProperty(gitBranches, sanitizeBranchName(name))
  THEN Failed(<<"Branch \"", sanitizeBranchName(name), "\" does not exist.">>)
  ELSE IF getGitChanges(files, currentTree, gitStagedPaths) # <<>>
  THEN Failed("Commit or unstage changes before switching branches.")
  ELSE IF sanitizeBranchName(name) = gitCurrentBranch THEN Ok
  ELSE IF sanitizeBranchName(name) \notin DOMAIN gitBranches
  THEN Thrown("TypeError: Cannot convert undefined or null to object")
  ELSE Ok

\* targetBranch is state.gitBranches[normalizedName]: an inherited property
\* passes the test for existence, and createFilesFromTree(targetBranch.tree)
\* then throws, because it has no tree
switchGitBranchReturns(name) ==
  IF sanitizeBranchName(name) = <<>> THEN Failed("Branch name is invalid.")
  ELSE IF ~HasProperty(gitBranches, sanitizeBranchName(name))
  THEN Failed(<<"Branch \"", sanitizeBranchName(name), "\" does not exist.">>)
  ELSE IF sanitizeBranchName(name) = gitCurrentBranch THEN Ok
  ELSE IF getGitChanges(files, currentTree, gitStagedPaths) # <<>>
  THEN Failed("Commit or unstage changes before switching branches.")
  ELSE IF sanitizeBranchName(name) \notin DOMAIN gitBranches
  THEN Thrown("TypeError: Cannot convert undefined or null to object")
  ELSE Ok

\* A variant of the next folders of switchGitBranch that keeps the folder list
switchGitBranchKeepingFolders(nextFiles) == folders

\* const nextFolders = inferFolderPathsFromFiles(nextFiles)
switchGitBranchNextFolders(nextFiles) == inferFolderPathsFromFiles(nextFiles)

switchGitBranch(name) ==
  LET normalizedName   == sanitizeBranchName(name)
      targetBranch     == gitBranches[normalizedName]
      nextFiles        == createFilesFromTree(targetBranch.tree,
                            FreshIds(files, Cardinality(DOMAIN targetBranch.tree)))
      nextFolders      == switchGitBranchNextFolders(nextFiles)
      nextActiveFileId == IF nextFiles # <<>> THEN nextFiles[1].id ELSE Null
  IN  IF ~switchGitBranchReturns(name).ok \/ normalizedName = gitCurrentBranch
      THEN UNCHANGED vars
      ELSE /\ files' = nextFiles
           /\ folders' = nextFolders
           /\ activeFileId' = nextActiveFileId
           /\ gitCurrentBranch' = normalizedName
           /\ gitStagedPaths' = <<>>
           /\ storage' = persistGitState(
                            persistActiveFileId(
                              persistFolders(persistFiles(storage, nextFiles), nextFolders),
                              nextActiveFileId),
                            normalizedName, gitBranches, <<>>)
           /\ UNCHANGED gitBranches

(***************************************************************************)
(* Construction of the store                                               *)
(***************************************************************************)

\* createDefaultGitState(files): one branch, main, whose tree is the saved
\* content of the files, no commit, nothing staged
createDefaultGitState(fs) ==
  [currentBranch |-> <<"m", "a", "i", "n">>,
   branches      |-> [name \in {<<"m", "a", "i", "n">>} |->
                        [tree |-> createTreeFromFiles(fs, TRUE), commits |-> <<>>]],
   stagedPaths   |-> <<>>]

\* normalizeStoredGitBranch(branchName, value): null for a value that is not
\* an object with a tree, else the branch with its tree paths and the paths of
\* its commits' changes normalized.  (Of two tree paths that normalize to the
\* same path the code keeps the later entry; the model keeps one of them.)
normalizeStoredGitBranch(branchName, value) ==
  IF value = NoItem THEN NoItem
  ELSE LET stored   == value[1]
           paths    == {normalizeWorkspacePath(path) : path \in DOMAIN stored.tree} \ {<<>>}
           tree     == [path \in paths |->
                          stored.tree[CHOOSE raw \in DOMAIN stored.tree :
                                        normalizeWorkspacePath(raw) = path]]
           NonEmptyPath(change) == change.path # <<>>
           changesOf(commit) ==
             SelectSeq([i \in 1..Len(commit.changes) |->
                          [path |-> normalizeWorkspacePath(commit.changes[i].path),
                           type |-> commit.changes[i].type]],
                       NonEmptyPath)
           commits  == [i \in 1..Len(stored.commits) |->
                          [stored.commits[i] EXCEPT !.changes = changesOf(stored.commits[i])]]
       IN  <<[tree |-> tree, commits |-> commits]>>

\* loadGitState(files) when localStorage holds the version-control state
\* stored: NoItem, or one record whose branches are the entries of the stored
\* object in their order, each a name and a value
loadGitState(fs, stored) ==
  LET fallback == createDefaultGitState(fs)
  IN  IF stored = NoItem THEN fallback
      ELSE
        LET parsed   == stored[1]
            Kept(entry) ==
              /\ sanitizeBranchName(entry.name) # <<>>
              /\ normalizeStoredGitBranch(sanitizeBranchName(entry.name), entry.value) # NoItem
            kept     == SelectSeq(parsed.branches, Kept)
            names    == {sanitizeBranchName(kept[i].name) : i \in 1..Len(kept)}
            LastOf(name) ==
              CHOOSE i \in 1..Len(kept) :
                /\ sanitizeBranchName(kept[i].name) = name
                /\ \A j \in (i + 1)..Len(kept) : sanitizeBranchName(kept[j].name) # name
            branches == [name \in names |->
                           normalizeStoredGitBranch(name, kept[LastOf(name)].value)[1]]
            currentBranch == sanitizeBranchName(parsed.currentBranch)
            resolvedCurrentBranch ==
              IF currentBranch # <<>> /\ HasProperty(branches, currentBranch)
              THEN currentBranch
              ELSE sanitizeBranchName(kept[1].name)
            NonEmpty(path) == path # <<>>
            stagedPaths ==
              SelectSeq([i \in 1..Len(parsed.stagedPaths) |->
                           normalizeWorkspacePath(parsed.stagedPaths[i])],
                        NonEmpty)
        IN  IF kept = <<>> THEN fallback
            ELSE [currentBranch |-> resolvedCurrentBranch,
                  branches      |-> branches,
                  stagedPaths   |-> sortPaths(Dedup(stagedPaths))]

\* The store as create() builds it when localStorage holds the files fs and
\* the version-control state stored
StoreLoadedFromStorage(fs, stored) ==
  LET gitState == loadGitState(fs, stored)
  IN
  /\ files = fs
  /\ folders = inferFolderPathsFromFiles(fs)
  /\ activeFileId = (IF fs # <<>> THEN fs[1].id ELSE Null)
  /\ gitBranches = gitState.branches
  /\ gitCurrentBranch = gitState.currentBranch
  /\ gitStagedPaths = gitState.stagedPaths
  /\ storage = [files |-> <<fs>>, folders |-> NoItem, activeFileId |-> NoItem,
                git |-> stored]

\* The store as create() builds it when localStorage holds the files fs and
\* nothing else: loadFiles gives fs, loadFolders and loadGitState their
\* defaults, loadActiveFileId the first file
StoreLoadedFrom(fs) ==
  LET gitState == createDefaultGitState(fs)
  IN
  /\ files = fs
  /\ folders = inferFolderPathsFromFiles(fs)
  /\ activeFileId = (IF fs # <<>> THEN fs[1].id ELSE Null)
  /\ gitBranches = gitState.branches
  /\ gitCurrentBranch = gitState.currentBranch
  /\ gitStagedPaths = gitState.stagedPaths
  /\ storage = [files |-> <<fs>>, folders |-> NoItem, activeFileId |-> NoItem,
                git |-> NoItem]

(***************************************************************************)
(* Bounds and inputs of the specifications                                 *)
(***************************************************************************)

\* The most files a working set grows to by creation, and the most commits
\* that are made
MaxFiles == 2

MaxCommits == 2

PathA == <<"d", "/", "a">>

PathB == <<"e", "/", "a">>

Main == <<"m", "a", "i", "n">>

Dev == <<"d", "e", "v">>

\* The name of a property that every object inherits from Object.prototype
ValueOf == <<"v", "a", "l", "u", "e", "O", "f">>

\* Paths as callers write them: clean, and with blanks and a backslash
FilePathInputs == {PathA, <<" ", "e", "\\", "a", " ">>}

FolderPathInputs == {<<"d">>, <<"e">>}

MessageInputs == {<<"m">>, <<" ">>, <<>>}

\* A name that is clean, one that sanitizeBranchName rewrites, one it rejects
BranchNameInputs == {Main, <<" ", "d", "e", "v">>, <<"d", "!">>}

\* The names a branch is created with: those, a name with a leading slash, a
\* name that is a slash, a name with a run of blanks inside, and a blank name
CreateNameInputs ==
  BranchNameInputs
    \cup {<<"/", "d", "e", "v">>, <<"/">>, <<"d", " ", " ", "v">>, <<" ">>}

\* The ids of the files and one id that no file has
FileIds == {files[i].id : i \in 1..Len(files)} \cup {FreshIds(files, 1)[1]}

HasPath(path) == \E i \in 1..Len(files) : files[i].path = normalizeWorkspacePath(path)

\* A commit is within the bounds when it fails or when it is one of the
\* first MaxCommits commits
CommitInBounds(message) ==
  commitGitChangesReturns(message).ok =>
    Cardinality(AllCommits(gitBranches)) < MaxCommits

(***************************************************************************)
(* The source-control panel (components/Sidebar/SourceControl.tsx): its    *)
(* state, its effects, its handlers and the settling of its remote calls   *)
(***************************************************************************)

\* The remote call canUseNativeGit() of the first render
ProbeCall == [id |-> 0, kind |-> "probe", repoPath |-> <<>>, awaitedBy |-> "none"]

\* The state of the panel after its first render and its effects, when
\* localStorage holds storedRepoPath as the repository path
SourceControlMounted(storedRepoPath) ==
  [nativeAvailable          |-> FALSE,
   nativeRepoPath           |-> storedRepoPath,
   nativeBusy               |-> FALSE,
   nativeStatus             |-> NoItem,
   error                    |-> NoItem,
   commitMessage            |-> <<>>,
   branchDraft              |-> <<>>,
   recentRepos              |-> <<>>,
   nativeRefreshInFlightRef |-> FALSE,
   skipEditorRefreshRef     |-> TRUE,
   editorRefreshTimer       |-> FALSE,
   nativeCalls              |-> {ProbeCall},
   issuedCalls              |-> 0]

\* A step of the store alone: the panel is as it was
StoreStep(action) == action /\ UNCHANGED panel

\* The panel stays as first rendered
PanelAtRest == panel = SourceControlMounted(<<>>)

\* const normalizeRepoPath = (value) => value.trim()
normalizeRepoPath(value) == Trim(value)

\* const trimmedNativeRepoPath = nativeRepoPath.trim()
trimmedNativeRepoPath(p) == Trim(p.nativeRepoPath)

\* A variant that takes the path as it is written
usingNativeBackendUntrimmed(p) == p.nativeAvailable /\ p.nativeRepoPath # <<>>

\* const usingNativeBackend = nativeAvailable && Boolean(trimmedNativeRepoPath)
usingNativeBackend(p) == p.nativeAvailable /\ trimmedNativeRepoPath(p) # <<>>

\* A variant that gives the message of whatever was thrown
getErrorMessageOfAnything(error) == error.message

\* getErrorMessage(error): what is thrown is a record of whether it is an
\* Error and of its message
getErrorMessage(error) ==
  IF error.isError /\ error.message # "" THEN error.message
  ELSE "Git operation failed."

\* What a remote call rejects with: an Error with a message, an Error with
\* none, and a value that is not an Error
NativeErrors ==
  { [isError |-> TRUE, message |-> "fatal"], [isError |-> TRUE, message |-> ""],
    [isError |-> FALSE, message |-> "text"] }

\* addRecentRepo(path) applied to the list recent
addRecentRepo(recent, path) ==
  LET normalizedPath == normalizeRepoPath(path)
      Other(entry)   == entry # normalizedPath
      next           == <<normalizedPath>> \o SelectSeq(recent, Other)
  IN  IF normalizedPath = <<>> THEN recent
      ELSE IF recent # <<>> /\ recent[1] = normalizedPath THEN recent
      ELSE SubSeq(next, 1, IF Len(next) < 8 THEN Len(next) ELSE 8)

\* The remote call with the next id
NextCall(p, kind, repoPath, awaitedBy) ==
  [id |-> p.issuedCalls + 1, kind |-> kind, repoPath |-> repoPath, awaitedBy |-> awaitedBy]

\* A variant that fetches the status whether or not a fetch is in flight
refreshNativeStatusUnguarded(p, using, repoPath, awaitedBy) ==
  IF ~using THEN [p EXCEPT !.nativeStatus = NoItem]
  ELSE [p EXCEPT !.nativeRefreshInFlightRef = TRUE,
                 !.nativeBusy = TRUE,
                 !.nativeCalls = @ \cup {NextCall(p, "status", repoPath, awaitedBy)},
                 !.issuedCalls = @ + 1]

\* refreshNativeStatus() up to its await, as the render in which
\* usingNativeBackend is `using` and trimmedNativeRepoPath is repoPath made
\* it; awaitedBy is the handler that awaits it, or "none"
refreshNativeStatus(p, using, repoPath, awaitedBy) ==
  IF ~using THEN [p EXCEPT !.nativeStatus = NoItem]
  ELSE IF p.nativeRefreshInFlightRef THEN p
  ELSE [p EXCEPT !.nativeRefreshInFlightRef = TRUE,
                 !.nativeBusy = TRUE,
                 !.nativeCalls = @ \cup {NextCall(p, "status", repoPath, awaitedBy)},
                 !.issuedCalls = @ + 1]

\* The effects that depend on usingNativeBackend and refreshNativeStatus, run
\* after a render that changed one of them: the refresh on a change of the
\* backend or the path, and the debounced refresh after an edit
backendEffects(before, p) ==
  IF /\ usingNativeBackend(p) = usingNativeBackend(before)
     /\ trimmedNativeRepoPath(p) = trimmedNativeRepoPath(before)
  THEN p
  ELSE IF ~usingNativeBackend(p)
  THEN [p EXCEPT !.nativeStatus = NoItem,
                 !.skipEditorRefreshRef = TRUE,
                 !.editorRefreshTimer = FALSE]
  ELSE LET refreshed == refreshNativeStatus(p, TRUE, trimmedNativeRepoPath(p), "none")
       IN  [refreshed EXCEPT !.skipEditorRefreshRef = FALSE,
                             !.editorRefreshTimer = ~p.skipEditorRefreshRef]

\* The effect that depends on files, run after a render that changed them
filesEffect(p) ==
  IF ~usingNativeBackend(p) THEN p
  ELSE IF p.skipEditorRefreshRef THEN [p EXCEPT !.skipEditorRefreshRef = FALSE]
  ELSE [p EXCEPT !.editorRefreshTimer = TRUE]

\* resolveAvailability: canUseNativeGit() settles with `available`
resolveAvailability(available) ==
  LET settled == [panel EXCEPT !.nativeAvailable = available,
                               !.nativeCalls = @ \ {ProbeCall}]
  IN  /\ ProbeCall \in panel.nativeCalls
      /\ panel' = backendEffects(panel, settled)
      /\ UNCHANGED vars

\* onChange of the repository path input
setNativeRepoPath(value) ==
  /\ panel' = backendEffects(panel, [panel EXCEPT !.nativeRepoPath = value])
  /\ UNCHANGED vars

\* switchRepoPath(path), called by the quick-switch keys with one of the
\* repositories listed
switchRepoPath(path) ==
  LET normalizedPath == normalizeRepoPath(path)
      switched == [panel EXCEPT !.nativeRepoPath = normalizedPath,
                                !.recentRepos = addRecentRepo(@, normalizedPath),
                                !.error = NoItem]
  IN  /\ panel' = IF normalizedPath = <<>> THEN panel
                  ELSE backendEffects(panel, switched)
      /\ UNCHANGED vars

setCommitMessage(value) ==
  /\ panel' = [panel EXCEPT !.commitMessage = value]
  /\ UNCHANGED vars

setBranchDraft(value) ==
  /\ panel' = [panel EXCEPT !.branchDraft = value]
  /\ UNCHANGED vars

\* The interval, the window focus and the visibility change, each of which
\* calls refreshNativeStatus() while the remote backend is used
refreshTimerFired ==
  /\ usingNativeBackend(panel)
  /\ panel' = refreshNativeStatus(panel, TRUE, trimmedNativeRepoPath(panel), "none")
  /\ UNCHANGED vars

\* The timeout set after an edit
editorRefreshTimerFired ==
  /\ panel.editorRefreshTimer
  /\ panel' = refreshNativeStatus([panel EXCEPT !.editorRefreshTimer = FALSE],
                                  TRUE, trimmedNativeRepoPath(panel), "none")
  /\ UNCHANGED vars

\* onClick of the refresh button, disabled without a path and while busy
handleRefreshClick ==
  /\ trimmedNativeRepoPath(panel) # <<>> /\ ~panel.nativeBusy
  /\ panel' = refreshNativeStatus(panel, usingNativeBackend(panel),
                                  trimmedNativeRepoPath(panel), "none")
  /\ UNCHANGED vars

\* A variant that starts the remote call without setNativeBusy(true)
startNativeMutationNotBusy(p, kind) ==
  [p EXCEPT !.nativeCalls = @ \cup {NextCall(p, kind, trimmedNativeRepoPath(p), "none")},
            !.issuedCalls = @ + 1]

\* The part of a handler that starts its remote call
startNativeMutation(p, kind) ==
  [p EXCEPT !.nativeBusy = TRUE,
            !.nativeCalls = @ \cup {NextCall(p, kind, trimmedNativeRepoPath(p), "none")},
            !.issuedCalls = @ + 1]

handleStageAll ==
  /\ ~panel.nativeBusy
  /\ IF ~usingNativeBackend(panel)
     THEN stageAllGitChanges /\ UNCHANGED panel
     ELSE panel' = startNativeMutation(panel, "stageAll") /\ UNCHANGED vars

handleUnstageAll ==
  /\ ~panel.nativeBusy
  /\ IF ~usingNativeBackend(panel)
     THEN unstageAllGitChanges /\ UNCHANGED panel
     ELSE panel' = startNativeMutation(panel, "unstageAll") /\ UNCHANGED vars

handleStagePath(path) ==
  /\ ~panel.nativeBusy
  /\ IF ~usingNativeBackend(panel)
     THEN stageGitPath(path) /\ UNCHANGED panel
     ELSE panel' = startNativeMutation(panel, "stage") /\ UNCHANGED vars

handleUnstagePath(path) ==
  /\ ~panel.nativeBusy
  /\ IF ~usingNativeBackend(panel)
     THEN unstageGitPath(path) /\ UNCHANGED panel
     ELSE panel' = startNativeMutation(panel, "unstage") /\ UNCHANGED vars

\* The commit button is disabled while busy and while no staged change is
\* shown, but Ctrl/Cmd+Enter in the message input calls handleCommit() in
\* every state of the panel
handleCommit ==
  LET result == commitGitChangesReturns(panel.commitMessage)
  IN  IF ~usingNativeBackend(panel)
      THEN /\ commitGitChanges(panel.commitMessage)
           /\ panel' = IF "thrown" \in DOMAIN result THEN panel
                       ELSE IF ~result.ok
                       THEN [panel EXCEPT !.error = <<result.error>>]
                       ELSE [panel EXCEPT !.commitMessage = <<>>, !.error = NoItem]
      ELSE /\ panel' = startNativeMutation(panel, "commit")
           /\ UNCHANGED vars

\* The branch select is disabled while busy and while it has no option; its
\* options are the branch names
handleBranchSwitch(name) ==
  LET result == switchGitBranchReturns(name)
  IN  /\ ~panel.nativeBusy
      /\ IF ~usingNativeBackend(panel)
         THEN /\ name \in DOMAIN gitBranches
              /\ switchGitBranch(name)
              /\ panel' = IF "thrown" \in DOMAIN result THEN panel
                          ELSE IF ~result.ok
                          THEN [panel EXCEPT !.error = <<result.error>>]
                          ELSE [panel EXCEPT !.error = NoItem]
         ELSE /\ panel.nativeStatus # NoItem
              /\ panel' = startNativeMutation(panel, "switchBranch")
              /\ UNCHANGED vars

handleCreateBranch ==
  LET result == createGitBranchReturns(panel.branchDraft)
  IN  /\ ~panel.nativeBusy
      /\ IF ~usingNativeBackend(panel)
         THEN /\ createGitBranch(panel.branchDraft)
              /\ panel' = IF "thrown" \in DOMAIN result THEN panel
                          ELSE IF ~result.ok
                          THEN [panel EXCEPT !.error = <<result.error>>]
                          ELSE [panel EXCEPT !.branchDraft = <<>>, !.error = NoItem]
         ELSE /\ panel' = startNativeMutation(panel, "createBranch")
              /\ UNCHANGED vars

\* The kinds of the remote calls that change the repository
NativeMutations ==
  {"stage", "unstage", "stageAll", "unstageAll", "commit", "createBranch", "switchBranch"}

\* The catch and the finally of a handler whose remote call rejected
nativeMutationRejected(call, nativeError) ==
  /\ call \in panel.nativeCalls /\ call.kind \in NativeMutations
  /\ panel' = [panel EXCEPT !.nativeCalls = @ \ {call},
                            !.error = <<getErrorMessage(nativeError)>>,
                            !.nativeBusy = FALSE]
  /\ UNCHANGED vars

\* A variant in which the handler ends without refreshNativeStatus()
nativeMutationResolvedWithoutRefresh(call) ==
  /\ call \in panel.nativeCalls /\ call.kind \in NativeMutations
  /\ panel' = [panel EXCEPT !.nativeCalls = @ \ {call},
                            !.error = NoItem,
                            !.nativeBusy = FALSE]
  /\ UNCHANGED vars

\* The rest of a handler whose remote call resolved: the draft is cleared,
\* refreshNativeStatus() of the handler's render is called and awaited; when
\* it returns without a fetch the handler ends at once
nativeMutationResolved(call) ==
  LET settled   == [panel EXCEPT !.nativeCalls = @ \ {call}]
      cleared   == IF call.kind = "commit" THEN [settled EXCEPT !.commitMessage = <<>>]
                   ELSE IF call.kind = "createBranch" THEN [settled EXCEPT !.branchDraft = <<>>]
                   ELSE settled
      refreshed == refreshNativeStatus(cleared, TRUE, call.repoPath, call.kind)
  IN  /\ call \in panel.nativeCalls /\ call.kind \in NativeMutations
      /\ panel' = IF refreshed.issuedCalls # cleared.issuedCalls THEN refreshed
                  ELSE [refreshed EXCEPT !.error = NoItem, !.nativeBusy = FALSE]
      /\ UNCHANGED vars

\* A variant in which the status is that of the path configured when the
\* fetch resolves
StatusOfConfiguredPath(call) ==
  [repoPath |-> trimmedNativeRepoPath(panel), call |-> call.id]

\* The status fetchNativeGitStatus resolves with, as far as the panel tells
\* one status from another: the path it was fetched for and the call
StatusOf(call) == [repoPath |-> call.repoPath, call |-> call.id]

\* The rest of refreshNativeStatus() when the fetch resolved, and then the
\* rest of the handler that awaited it
fetchNativeGitStatusResolved(call) ==
  LET applied == [panel EXCEPT !.nativeCalls = @ \ {call},
                               !.nativeStatus = <<StatusOf(call)>>,
                               !.recentRepos = addRecentRepo(@, call.repoPath),
                               !.error = NoItem,
                               !.nativeRefreshInFlightRef = FALSE,
                               !.nativeBusy = FALSE]
  IN  /\ call \in panel.nativeCalls /\ call.kind = "status"
      /\ panel' = applied
      /\ UNCHANGED vars

\* The rest of refreshNativeStatus() when the fetch rejected, and then the
\* rest of the handler that awaited it, which clears the error
fetchNativeGitStatusRejected(call, nativeError) ==
  LET failed == [panel EXCEPT !.nativeCalls = @ \ {call},
                              !.nativeStatus = NoItem,
                              !.error = <<getErrorMessage(nativeError)>>,
                              !.nativeRefreshInFlightRef = FALSE,
                              !.nativeBusy = FALSE]
  IN  /\ call \in panel.nativeCalls /\ call.kind = "status"
      /\ panel' = IF call.awaitedBy = "none" THEN failed
                  ELSE [failed EXCEPT !.error = NoItem]
      /\ UNCHANGED vars

(***************************************************************************)
(* The workspace: files are added, edited, renamed, moved, saved and       *)
(* deleted, and branches are created and switched, with nothing staged     *)
(***************************************************************************)

\* The files that take a path and every candidate ensureUniquePath tries for
\* it: d/a, d/a-1, ..., d/a-999
ExhaustingFiles ==
  [i \in 1..IndexLimit |->
     createFile(i, IF i = 1 THEN PathA ELSE PathA \o <<"-">> \o ToDecimal(i - 1),
                Plaintext, "", "")]

WorkspaceInitialFiles ==
  { << createFile(1, PathA, Plaintext, "", ""), createFile(2, PathB, Plaintext, "", "") >>,
    ExhaustingFiles }

InitWorkspace ==
  /\ \E fs \in WorkspaceInitialFiles : StoreLoadedFrom(fs)
  /\ PanelAtRest

\* The operations are explored on working sets of at most MaxFiles files;
\* on the exhausting working set only addFile is
WithinBounds == Len(files) <= MaxFiles

NextWorkspace ==
  \/ StoreStep(\E path \in FilePathInputs :
                  /\ Len(files) < MaxFiles \/ Len(files) = IndexLimit
                  /\ addFile(path, <<>>))
  \/ StoreStep(\E path \in FolderPathInputs : WithinBounds /\ addFolder(path))
  \/ StoreStep(\E id \in 1..(2 * MaxFiles), path \in FilePathInputs :
                  WithinBounds /\ id \in FileIds /\ renameFile(id, path))
  \/ StoreStep(\E fromPath \in FolderPathInputs, toPath \in FolderPathInputs :
                  WithinBounds /\ renameFolder(fromPath, toPath))
  \/ StoreStep(\E path \in FilePathInputs :
                  /\ WithinBounds
                  /\ HasPath(path) \/ Len(files) < MaxFiles
                  /\ applyFileEdit(path, ""))
  \/ StoreStep(\E id \in 1..(2 * MaxFiles) : WithinBounds /\ id \in FileIds /\ saveFile(id))
  \/ StoreStep(\E id \in 1..(2 * MaxFiles) : WithinBounds /\ id \in FileIds /\ deleteFile(id))
  \/ StoreStep(\E id \in 1..(2 * MaxFiles) :
                  WithinBounds /\ id \in FileIds /\ updateFileContent(id, ""))
  \/ StoreStep(WithinBounds /\ CommitInBounds(<<"m">>) /\ commitGitChanges(<<"m">>))
  \/ StoreStep(\E name \in {Main, Dev} : WithinBounds /\ createGitBranch(name))
  \/ StoreStep(\E name \in {Main, Dev} : WithinBounds /\ switchGitBranch(name))

SpecWorkspace == InitWorkspace /\ [][NextWorkspace]_vars

(***************************************************************************)
(* Staging and committing on one branch                                    *)
(***************************************************************************)

StagingInitialFiles == << createFile(1, PathA, Plaintext, "1", "1") >>

InitStaging ==
  /\ StoreLoadedFrom(StagingInitialFiles)
  /\ PanelAtRest

NextStaging ==
  \/ StoreStep(applyFileEdit(PathB, "1"))
  \/ StoreStep(\E content \in {"1", "2"} : HasPath(PathA) /\ applyFileEdit(PathA, content))
  \/ StoreStep(\E id \in 1..MaxFiles : id \in FileIds /\ deleteFile(id))
  \/ StoreStep(\E id \in 1..MaxFiles : id \in FileIds /\ updateFileContent(id, "2"))
  \/ StoreStep(\E path \in {PathA, PathB} : stageGitPath(path))
  \/ StoreStep(\E path \in {PathA, PathB} : unstageGitPath(path))
  \/ StoreStep(stageAllGitChanges)
  \/ StoreStep(unstageAllGitChanges)
  \/ StoreStep(\E message \in MessageInputs : CommitInBounds(message) /\ commitGitChanges(message))

SpecStaging == InitStaging /\ [][NextStaging]_vars

(***************************************************************************)
(* Staging and committing with a file at the top level that is named as a  *)
(* property every object inherits                                          *)
(***************************************************************************)

InitInherited ==
  /\ StoreLoadedFrom(StagingInitialFiles)
  /\ PanelAtRest

NextInherited ==
  \/ StoreStep(\E content \in {"1", "2"} : applyFileEdit(ValueOf, content))
  \/ StoreStep(\E id \in 1..(MaxFiles + 2) : id \in FileIds /\ deleteFile(id))
  \/ StoreStep(\E path \in {PathA, ValueOf} : stageGitPath(path))
  \/ StoreStep(stageAllGitChanges)
  \/ StoreStep(unstageAllGitChanges)
  \/ StoreStep(\E message \in MessageInputs : CommitInBounds(message) /\ commitGitChanges(message))

SpecInherited == InitInherited /\ [][NextInherited]_vars

(***************************************************************************)
(* Branches: committing, creating a branch and switching                   *)
(***************************************************************************)

InitBranches ==
  /\ StoreLoadedFrom(StagingInitialFiles)
  /\ PanelAtRest

NextBranches ==
  \/ StoreStep(\E content \in {"1", "2"} : applyFileEdit(PathA, content))
  \/ StoreStep(applyFileEdit(PathB, "1"))
  \/ StoreStep(stageGitPath(PathA))
  \/ StoreStep(stageAllGitChanges)
  \/ StoreStep(unstageAllGitChanges)
  \/ StoreStep(CommitInBounds(<<"m">>) /\ commitGitChanges(<<"m">>))
  \/ StoreStep(\E name \in BranchNameInputs : createGitBranch(name))
  \/ StoreStep(\E name \in BranchNameInputs \cup {ValueOf} : switchGitBranch(name))

SpecBranches == InitBranches /\ [][NextBranches]_vars

(***************************************************************************)
(* Branch names: branches are created and switched to under names as       *)
(* callers write them                                                      *)
(***************************************************************************)

InitNames ==
  /\ StoreLoadedFrom(StagingInitialFiles)
  /\ PanelAtRest

NextNames ==
  \/ StoreStep(\E content \in {"1", "2"} : applyFileEdit(PathA, content))
  \/ StoreStep(stageAllGitChanges)
  \/ StoreStep(CommitInBounds(<<"m">>) /\ commitGitChanges(<<"m">>))
  \/ StoreStep(\E name \in CreateNameInputs : createGitBranch(name))
  \/ StoreStep(\E name \in CreateNameInputs : switchGitBranch(name))

SpecNames == InitNames /\ [][NextNames]_vars

(***************************************************************************)
(* Loading: the store starts from a stored version-control state           *)
(***************************************************************************)

\* A stored branch whose tree is the saved content of the initial files
StoredBranch ==
  <<[tree |-> createTreeFromFiles(StagingInitialFiles, TRUE), commits |-> <<>>]>>

\* Stored states: none; a current branch that exists; one that does not, after
\* a name that is dropped; branches none of which is kept; a name written
\* with blanks; and a current branch named as a property every object inherits
StoredGitInputs ==
  { NoItem,
    <<[currentBranch |-> Dev,
       branches      |-> <<[name |-> Main, value |-> StoredBranch],
                           [name |-> Dev, value |-> StoredBranch]>>,
       stagedPaths   |-> <<>>]>>,
    <<[currentBranch |-> <<"g">>,
       branches      |-> <<[name |-> <<"d", "!">>, value |-> StoredBranch],
                           [name |-> <<" ", "d", "e", "v">>, value |-> StoredBranch],
                           [name |-> Main, value |-> StoredBranch]>>,
       stagedPaths   |-> <<PathA, <<" ", "e", "\\", "a", " ">>, PathA>>]>>,
    <<[currentBranch |-> Main,
       branches      |-> <<[name |-> Main, value |-> NoItem],
                           [name |-> <<"d", "!">>, value |-> StoredBranch]>>,
       stagedPaths   |-> <<>>]>>,
    <<[currentBranch |-> ValueOf,
       branches      |-> <<[name |-> Main, value |-> StoredBranch]>>,
       stagedPaths   |-> <<>>]>> }

InitLoad ==
  /\ \E stored \in StoredGitInputs : StoreLoadedFromStorage(StagingInitialFiles, stored)
  /\ PanelAtRest

NextLoad ==
  \/ StoreStep(\E content \in {"1", "2"} : applyFileEdit(PathA, content))
  \/ StoreStep(stageAllGitChanges)
  \/ StoreStep(CommitInBounds(<<"m">>) /\ commitGitChanges(<<"m">>))
  \/ StoreStep(\E name \in {Dev, ValueOf} : createGitBranch(name))
  \/ StoreStep(\E name \in {Main, Dev, ValueOf} : switchGitBranch(name))

SpecLoad == InitLoad /\ [][NextLoad]_vars

(***************************************************************************)
(* Renaming files and folders                                              *)
(***************************************************************************)

Src == <<"s", "r", "c">>

Lib == <<"l", "i", "b">>

SrcSub == <<"s", "r", "c", "/", "s", "u", "b">>

LibLib == <<"l", "i", "b", "/", "l", "i", "b">>

SrcATs == <<"s", "r", "c", "/", "a", ".", "t", "s">>

SrcA1Ts == <<"s", "r", "c", "/", "a", "-", "1", ".", "t", "s">>

SrcSubBTs == <<"s", "r", "c", "/", "s", "u", "b", "/", "b", ".", "t", "s">>

LibATs == <<"l", "i", "b", "/", "a", ".", "t", "s">>

LibA1Ts == <<"l", "i", "b", "/", "a", "-", "1", ".", "t", "s">>

\* The files that take d/a and every candidate for it, and a file in another
\* folder
CrowdedFiles == Append(ExhaustingFiles, createFile(IndexLimit + 1, PathB, Plaintext, "", ""))

\* A folder with a file and a subfolder beside a folder that has a file of the
\* same name; two files of a folder whose names collide once one is suffixed;
\* a file that has the path of a folder; and the crowded working set
RenameInitialFiles ==
  { << createFile(1, SrcATs, Typescript, "1", ""),
       createFile(2, SrcSubBTs, Typescript, "", ""),
       createFile(3, LibATs, Typescript, "", "") >>,
    << createFile(1, SrcA1Ts, Typescript, "", ""),
       createFile(2, SrcATs, Typescript, "", ""),
       createFile(3, LibATs, Typescript, "", "") >>,
    << createFile(1, Src, Plaintext, "", ""),
       createFile(2, SrcATs, Typescript, "", "") >>,
    CrowdedFiles }

\* The folder renames that are tried: to another folder and back, to the
\* same folder written with blanks and a trailing slash, into a subfolder of
\* the folder, a subfolder to another folder, and a subfolder to its parent
RenameFolderInputs ==
  { <<Src, Lib>>, <<Lib, Src>>, <<Src, <<" ", "s", "r", "c", "/">> >>, <<Src, SrcSub>>,
    <<SrcSub, Lib>>, <<LibLib, Lib>> }

\* File paths as callers write them: the path of a file of the other folder,
\* a path with a backslash, and a blank path
RenameFileInputs == {LibATs, <<"s", "r", "c", "\\", "a", ".", "t", "s">>, <<" ">>}

\* Renaming is explored while no path is longer than this
MaxPathLen == 14

PathsInBounds ==
  /\ Len(files) < IndexLimit
  /\ \A i \in 1..Len(files) : Len(files[i].path) <= MaxPathLen
  /\ \A i \in 1..Len(folders) : Len(folders[i]) <= MaxPathLen

InitRename ==
  /\ \E fs \in RenameInitialFiles : StoreLoadedFrom(fs)
  /\ PanelAtRest

NextRename ==
  \/ StoreStep(\E input \in RenameFolderInputs :
                  PathsInBounds /\ renameFolder(input[1], input[2]))
  \/ StoreStep(\E id \in 1..4, path \in RenameFileInputs :
                  PathsInBounds /\ id \in FileIds /\ renameFile(id, path))
  \/ StoreStep(PathsInBounds /\ addFolder(LibLib \o <<"/">> \o Lib))
  \/ StoreStep(Len(files) > IndexLimit /\ renameFolder(<<"e">>, <<"d">>))
  \/ StoreStep(Len(files) > IndexLimit /\ renameFile(IndexLimit + 1, PathA))

SpecRename == InitRename /\ [][NextRename]_vars

(***************************************************************************)
(* Empty paths: the operations that take a path are called with paths that *)
(* are empty once normalized, and with a path that is not                  *)
(***************************************************************************)

\* The empty path, a blank, a slash, a backslash with a blank, and slashes
\* between blanks
EmptyPathInputs ==
  {<<>>, <<" ">>, <<"/">>, <<"\\", " ">>, <<" ", "/", "/", " ">>}

InitEmptyPaths ==
  /\ StoreLoadedFrom(StagingInitialFiles)
  /\ PanelAtRest

NextEmptyPaths ==
  \/ StoreStep(\E path \in EmptyPathInputs \cup {PathB} :
                  Len(files) < MaxFiles /\ addFile(path, <<>>))
  \/ StoreStep(\E path \in EmptyPathInputs \cup {<<"e">>} : addFolder(path))
  \/ StoreStep(\E id \in 1..(MaxFiles + 1), path \in EmptyPathInputs \cup {PathB} :
                  id \in FileIds /\ renameFile(id, path))
  \/ StoreStep(\E fromPath \in EmptyPathInputs \cup {<<"d">>}, toPath \in EmptyPathInputs \cup {<<"e">>} :
                  renameFolder(fromPath, toPath))
  \/ StoreStep(\E path \in EmptyPathInputs \cup {PathA}, content \in {"1", "2"} :
                  (normalizeWorkspacePath(path) # <<>> => HasPath(path)) /\ applyFileEdit(path, content))
  \/ StoreStep(\E path \in EmptyPathInputs \cup {PathA, PathB} : stageGitPath(path))
  \/ StoreStep(\E path \in EmptyPathInputs \cup {PathA, PathB} : unstageGitPath(path))

SpecEmptyPaths == InitEmptyPaths /\ [][NextEmptyPaths]_vars

(***************************************************************************)
(* Deleting: files of a working set of three are deleted, added again,     *)
(* edited and made active                                                  *)
(***************************************************************************)

PathEB == <<"e", "/", "b">>

DeleteInitialFiles ==
  << createFile(1, PathA, Plaintext, "", ""), createFile(2, PathB, Plaintext, "", ""),
     createFile(3, PathEB, Plaintext, "", "") >>

\* The ids deleteFile and setActiveFile are called with: the ids of the files
\* and one id of no file
DeleteIds == 1..4

InitDelete ==
  /\ StoreLoadedFrom(DeleteInitialFiles)
  /\ PanelAtRest

NextDelete ==
  \/ StoreStep(\E id \in DeleteIds : deleteFile(id))
  \/ StoreStep(\E id \in DeleteIds : setActiveFile(id))
  \/ StoreStep(\E path \in {PathA, PathB, PathEB} : Len(files) < 3 /\ ~HasPath(path) /\ addFile(path, <<>>))
  \/ StoreStep(\E id \in DeleteIds : updateFileContent(id, "1"))

SpecDelete == InitDelete /\ [][NextDelete]_vars

(***************************************************************************)
(* Folders: files in folders of folders are added, edited, renamed, moved  *)
(* and deleted, and committed on two branches                              *)
(***************************************************************************)

PathDEA == <<"d", "/", "e", "/", "a">>

PathEDA == <<"e", "/", "d", "/", "a">>

FoldersInitialFiles ==
  << createFile(1, PathA, Plaintext, "", ""), createFile(2, PathDEA, Plaintext, "", "") >>

FoldersFileLimit == 2

\* The stored version-control state of a workspace whose branch dev has the
\* one file e/a, and whose branch main has the files of the working set
FoldersStoredGit ==
  <<[currentBranch |-> Main,
     branches      |-> <<[name |-> Main,
                          value |-> <<[tree |-> createTreeFromFiles(FoldersInitialFiles, TRUE),
                                       commits |-> <<>>]>>],
                         [name |-> Dev,
                          value |-> <<[tree |-> [path \in {PathB} |-> ""],
                                       commits |-> <<>>]>>]>>,
     stagedPaths   |-> <<>>]>>

InitFolders ==
  /\ StoreLoadedFromStorage(FoldersInitialFiles, FoldersStoredGit)
  /\ PanelAtRest

NextFolders ==
  \/ StoreStep(Len(files) < FoldersFileLimit /\ addFile(PathEDA, <<>>))
  \/ StoreStep(\E path \in {PathB, PathDEA} :
                  (HasPath(path) \/ Len(files) < FoldersFileLimit) /\ applyFileEdit(path, ""))
  \/ StoreStep(\E id \in 1..(FoldersFileLimit + 1), path \in {PathA, PathEDA} :
                  id \in FileIds /\ renameFile(id, path))
  \/ StoreStep(\E input \in {<< <<"d">>, <<"e">> >>, << <<"e">>, <<"d">> >>,
                              << <<"d", "/", "e">>, <<"e">> >>} :
                  renameFolder(input[1], input[2]))
  \/ StoreStep(\E id \in 1..(FoldersFileLimit + 1) : id \in FileIds /\ deleteFile(id))
  \/ StoreStep(\E name \in {Main, Dev} : switchGitBranch(name))

SpecFolders == InitFolders /\ [][NextFolders]_vars

(***************************************************************************)
(* Paths: the store starts from a stored folder list whose entry is any    *)
(* string of a letter, a blank, a slash and a backslash                    *)
(***************************************************************************)

MaxRawLen == 4

PathChars == {"a", " ", "/", "\\"}

RawPaths == UNION {[1..n -> PathChars] : n \in 0..MaxRawLen}

\* loadFolders(files) when localStorage holds the folder list stored: NoItem,
\* or one list of strings
loadFolders(fs, stored) ==
  LET inferred == inferFolderPathsFromFiles(fs)
  IN  IF stored = NoItem THEN inferred
      ELSE LET NonEmpty(path) == path # <<>>
               storedPaths == SelectSeq([i \in 1..Len(stored[1]) |->
                                           normalizeWorkspacePath(stored[1][i])],
                                        NonEmpty)
           IN  mergeFolderPaths(storedPaths \o inferred)

\* The store as create() builds it when localStorage holds the files fs and
\* the folder list storedFolders
StoreLoadedWithFolders(fs, storedFolders) ==
  LET gitState == createDefaultGitState(fs)
  IN
  /\ files = fs
  /\ folders = loadFolders(fs, storedFolders)
  /\ activeFileId = (IF fs # <<>> THEN fs[1].id ELSE Null)
  /\ gitBranches = gitState.branches
  /\ gitCurrentBranch = gitState.currentBranch
  /\ gitStagedPaths = gitState.stagedPaths
  /\ storage = [files |-> <<fs>>, folders |-> storedFolders, activeFileId |-> NoItem,
                git |-> NoItem]

InitPaths ==
  /\ \E raw \in RawPaths : StoreLoadedWithFolders(StagingInitialFiles, << <<raw>> >>)
  /\ PanelAtRest

NextPaths ==
  \/ StoreStep(\E path \in {<<" ", "e", "\\", "a", " ">>, <<"/", "e", "/">>} : addFolder(path))
  \/ StoreStep(\E path \in {<<"\\", "e", " ", "/", "/", "a">>} :
                  Len(files) < MaxFiles /\ addFile(path, <<>>))

SpecPaths == InitPaths /\ [][NextPaths]_vars

(***************************************************************************)
(* Unique paths: files are added under names with and without an           *)
(* extension, and deleted                                                  *)
(***************************************************************************)

\* Names with an extension, with a leading dot only, with none, with a
\* trailing dot, with two dots in a folder, and one written with blanks
UniquePathInputs ==
  { <<"a", ".", "t", "s">>, <<".", "t", "s">>, <<"a">>, <<"a", ".">>,
    <<"d", "/", "a", ".", "b", ".", "t", "s">>, <<" ", "d", "\\", "a", " ">> }

UniqueFileLimit == 3

InitUnique ==
  /\ \E fs \in {<< createFile(1, <<".", "t", "s">>, Typescript, "", "") >>, ExhaustingFiles} :
       StoreLoadedFrom(fs)
  /\ PanelAtRest

NextUnique ==
  \/ StoreStep(\E path \in UniquePathInputs : Len(files) < UniqueFileLimit /\ addFile(path, <<>>))
  \/ StoreStep(\E id \in 1..(UniqueFileLimit + 1) :
                  Len(files) <= UniqueFileLimit /\ id \in FileIds /\ deleteFile(id))

SpecUnique == InitUnique /\ [][NextUnique]_vars

(***************************************************************************)
(* Languages: files are added and renamed under names whose language is    *)
(* inferred                                                                *)
(***************************************************************************)

\* Names without a dot, with a leading dot only, with an extension in upper
\* case, with an extension of the table, with none, with a trailing dot, and
\* with an extension after an extension
LanguagePathInputs ==
  { <<"t", "s">>, <<".", "t", "s">>, <<"a", ".", "T", "S">>, <<"a", ".", "m", "d">>,
    <<"a">>, <<"a", ".">>, <<"a", ".", "t", "s", ".", "a">> }

InitLanguages ==
  /\ StoreLoadedFrom(<< createFile(1, <<"a", ".", "t", "s">>, Typescript, "", "") >>)
  /\ PanelAtRest

NextLanguages ==
  \/ StoreStep(\E path \in LanguagePathInputs : Len(files) < MaxFiles /\ addFile(path, <<>>))
  \/ StoreStep(\E id \in 1..(MaxFiles + 1), path \in LanguagePathInputs :
                  id \in FileIds /\ renameFile(id, path))
  \/ StoreStep(\E id \in 1..(MaxFiles + 1) : id \in FileIds /\ deleteFile(id))

SpecLanguages == InitLanguages /\ [][NextLanguages]_vars

(***************************************************************************)
(* The panel: the probe settles, the repository path is typed, refreshes   *)
(* are requested, the operations are run on either backend, and the remote *)
(* calls resolve and reject in any order                                   *)
(***************************************************************************)

\* Repository paths as typed: a blank and a path; the path restored from the
\* storage is none or another path
RepoPathInputs == {<<" ">>, <<"r">>}

MaxCalls == 3

CallsInBounds == panel.issuedCalls < MaxCalls

InitPanel ==
  /\ StoreLoadedFrom(StagingInitialFiles)
  /\ \E storedRepoPath \in {<<>>, <<"q">>} : panel = SourceControlMounted(storedRepoPath)

NextPanel ==
  \/ \E available \in BOOLEAN : resolveAvailability(available)
  \/ \E value \in RepoPathInputs : CallsInBounds /\ setNativeRepoPath(value)
  \/ \E i \in 1..Len(panel.recentRepos) :
       CallsInBounds /\ panel.nativeAvailable /\ switchRepoPath(panel.recentRepos[i])
  \/ setCommitMessage(<<"m">>)
  \/ Dev \notin DOMAIN gitBranches /\ setBranchDraft(Dev)
  \/ CallsInBounds /\ refreshTimerFired
  \/ CallsInBounds /\ editorRefreshTimerFired
  \/ CallsInBounds /\ handleRefreshClick
  \/ applyFileEdit(PathA, "2") /\ panel' = filesEffect(panel)
  \/ CallsInBounds /\ handleStageAll
  \/ CallsInBounds /\ handleUnstageAll
  \/ CallsInBounds /\ handleStagePath(PathA)
  \/ CallsInBounds /\ handleUnstagePath(PathA)
  \/ CallsInBounds /\ CommitInBounds(panel.commitMessage) /\ handleCommit
  \/ \E name \in {Main, Dev} : CallsInBounds /\ handleBranchSwitch(name)
  \/ CallsInBounds /\ handleCreateBranch
  \/ \E call \in panel.nativeCalls, nativeError \in NativeErrors :
        nativeMutationRejected(call, nativeError)
  \/ \E call \in panel.nativeCalls : nativeMutationResolved(call)
  \/ \E call \in panel.nativeCalls : fetchNativeGitStatusResolved(call)
  \/ \E call \in panel.nativeCalls, nativeError \in NativeErrors :
        fetchNativeGitStatusRejected(call, nativeError)

SpecPanel == InitPanel /\ [][NextPanel]_allVars

(***************************************************************************)
(* The diff, on every base tree, working set and staged list within the    *)
(* bounds                                                                  *)
(***************************************************************************)

PathC == <<"c">>

DiffPaths == {PathA, PathB, PathC}

DiffContents == {"", "1"}

\* The working sets of at most MaxFiles files with pairwise-distinct paths
DiffFileInputs ==
  UNION { { [i \in 1..n |-> createFile(i, entry[i][1], Plaintext, entry[i][2], "")] :
              entry \in { e \in [1..n -> DiffPaths \X DiffContents] :
                            \A i \in 1..n, j \in 1..n : i # j => e[i][1] # e[j][1] } } :
          n \in 0..MaxFiles }

DiffTreeInputs == UNION { [paths -> DiffContents] : paths \in SUBSET DiffPaths }

\* Staged lists as the store keeps them: normalized, without duplicates, sorted
DiffStagedInputs == { sortPaths(SetToSeq(paths)) : paths \in SUBSET DiffPaths }

\* The store as create() builds it when localStorage holds the files fs and
\* a version-control state with one branch, main, of the given tree and the
\* given staged paths
StoreLoadedWith(fs, tree, stagedPaths) ==
  LET branches == [name \in {Main} |-> [tree |-> tree, commits |-> <<>>]]
  IN
  /\ files = fs
  /\ folders = inferFolderPathsFromFiles(fs)
  /\ activeFileId = (IF fs # <<>> THEN fs[1].id ELSE Null)
  /\ gitBranches = branches
  /\ gitCurrentBranch = Main
  /\ gitStagedPaths = stagedPaths
  /\ storage = [files |-> <<fs>>, folders |-> NoItem, activeFileId |-> NoItem,
                git |-> <<[currentBranch |-> Main, branches |-> branches,
                           stagedPaths |-> stagedPaths]>>]

\* A file at the top level named as a property that every object inherits:
\* in the working set or not, in the tree or not, staged or not
InheritedPathInputs ==
  { <<fs, tree, stagedPaths>> :
      fs \in {<<>>, <<createFile(1, ValueOf, Plaintext, "1", "")>>},
      tree \in {[path \in {} |-> ""], [path \in {ValueOf} |-> ""],
                [path \in {ValueOf} |-> "1"]},
      stagedPaths \in {<<>>, <<ValueOf>>} }

InitDiff ==
  /\ \/ \E fs \in DiffFileInputs, tree \in DiffTreeInputs, stagedPaths \in DiffStagedInputs :
           StoreLoadedWith(fs, tree, stagedPaths)
     \/ \E input \in InheritedPathInputs : StoreLoadedWith(input[1], input[2], input[3])
  /\ PanelAtRest

\* Paths as callers of stage write them: clean, with blanks and a backslash,
\* and blank
StagePathInputs == DiffPaths \cup {<<" ", "e", "\\", "a", " ">>, <<" ">>, ValueOf}

NextDiff ==
  \/ StoreStep(\E path \in StagePathInputs : stageGitPath(path))
  \/ StoreStep(\E path \in DiffPaths \cup {ValueOf} : unstageGitPath(path))
  \/ StoreStep(stageAllGitChanges)
  \/ StoreStep(unstageAllGitChanges)

SpecDiff == InitDiff /\ [][NextDiff]_vars

(***************************************************************************)
(* Edits of the workspace while paths are staged                           *)
(***************************************************************************)

InitEdits ==
  /\ StoreLoadedFrom(StagingInitialFiles)
  /\ PanelAtRest

NextEdits ==
  \/ StoreStep(~HasPath(PathB) /\ addFile(<<" ", "e", "\\", "a", " ">>, <<>>))
  \/ StoreStep(addFolder(<<"e">>))
  \/ StoreStep(\E id \in 1..(MaxFiles + 1) : id \in FileIds /\ renameFile(id, PathB))
  \/ StoreStep(renameFolder(<<"d">>, <<"e">>))
  \/ StoreStep(HasPath(PathA) /\ applyFileEdit(PathA, "1"))
  \/ StoreStep(\E id \in 1..(MaxFiles + 1) : id \in FileIds /\ updateFileContent(id, "2"))
  \/ StoreStep(\E id \in 1..(MaxFiles + 1) : id \in FileIds /\ saveFile(id))
  \/ StoreStep(\E id \in 1..(MaxFiles + 1) : id \in FileIds /\ deleteFile(id))
  \/ StoreStep(createGitBranch(Dev))
  \/ StoreStep(stageGitPath(PathA))
  \/ StoreStep(stageAllGitChanges)

SpecEdits == InitEdits /\ [][NextEdits]_vars

(***************************************************************************)
(* What the properties speak of                                            *)
(***************************************************************************)

\* No two files of the working set have the same path
DistinctPaths ==
  \A i \in 1..Len(files), j \in 1..Len(files) : i # j => files[i].path # files[j].path

WorkingPaths == {files[i].path : i \in 1..Len(files)}

\* The working content of a path that some file has
WorkingContent(path) ==
  files[CHOOSE i \in 1..Len(files) :
          files[i].path = path /\ \A j \in (i + 1)..Len(files) : files[j].path # path].content

\* How a path differs between the current branch tree and the working set:
\* "added", "deleted", "modified", or "null" when it does not differ
ExpectedKind(path) ==
  IF path \notin DOMAIN currentTree /\ path \in WorkingPaths THEN "added"
  ELSE IF path \in DOMAIN currentTree /\ path \notin WorkingPaths THEN "deleted"
  ELSE IF path \in DOMAIN currentTree /\ path \in WorkingPaths
          /\ currentTree[path] # WorkingContent(path)
  THEN "modified"
  ELSE "null"

ChangedPaths == {path \in DOMAIN currentTree \cup WorkingPaths : ExpectedKind(path) # "null"}

PendingChanges == ChangedPaths # {}

\* The staged paths that differ: the changes a commit records
EffectivelyStaged == Range(gitStagedPaths) \cap ChangedPaths

Blank(message) == \A i \in 1..Len(message) : message[i] \in Whitespace

Diff == getGitChanges(files, currentTree, gitStagedPaths)

\* C1 (as stated, refuted): from an initial working set with pairwise-distinct
\* paths, no reachable working set has two files with the same path.
C1_NoTwoFilesShareAPath == DistinctPaths

\* C1 (amended): every operation applied to a working set of fewer than 1000
\* files with pairwise-distinct paths yields a working set with
\* pairwise-distinct paths.
C1_DistinctPathsPreservedBelowLimit ==
  [][(DistinctPaths /\ Len(files) < IndexLimit) => DistinctPaths']_vars

\* A collision has been resolved: two files in one folder under the same
\* desired name, the later one suffixed
C1_CollisionResolved ==
  /\ DistinctPaths
  /\ \E i \in 1..Len(files), j \in 1..Len(files) :
        files[i].path = PathB /\ files[j].path = PathB \o <<"-", "1">>

\* C2: createBranch copies the tree and the commit list of the current branch
\* by value, and no operation, a commit in particular, changes the tree or the
\* commit list of a branch other than the current one: a branch that is not
\* current keeps both, whatever is committed on the current branch.
C2_SnapshotIsolation ==
  [][/\ \A name \in DOMAIN gitBranches :
           /\ name \in DOMAIN gitBranches'
           /\ name # gitCurrentBranch => gitBranches'[name] = gitBranches[name]
     /\ \A name \in DOMAIN gitBranches' \ DOMAIN gitBranches :
           gitBranches'[name] = gitBranches[gitCurrentBranch]]_vars

\* Two branches have each recorded a commit the other does not have
C2_BranchesDiverged ==
  \E name \in DOMAIN gitBranches, other \in DOMAIN gitBranches :
     /\ name # other
     /\ gitBranches[name].commits # <<>>
     /\ gitBranches[other].commits # <<>>
     /\ Range(gitBranches[name].commits) \cap Range(gitBranches[other].commits) = {}
     /\ gitBranches[name].tree # gitBranches[other].tree

\* C3 (as stated, refuted by the code): a commit with a non-blank message and
\* at least one effectively staged change is accepted; it appends exactly one commit to the current branch,
\* whose changes are the effectively staged changes (path and kind), empties
\* the staged paths, and leaves a tree against which no committed path
\* differs: a deleted path is gone from it, an added or modified one holds the
\* working content.
C3_CommitRecordsStagedChanges ==
  /\ [](\A message \in MessageInputs :
          (~Blank(message) /\ EffectivelyStaged # {})
            => commitGitChangesReturns(message).ok)
  /\ [][\A message \in MessageInputs :
          (~Blank(message) /\ EffectivelyStaged # {} /\ commitGitChanges(message))
            => LET before    == gitBranches[gitCurrentBranch].commits
                   after     == gitBranches'[gitCurrentBranch].commits
                   commit    == after[Len(after)]
                   nextTree  == gitBranches'[gitCurrentBranch].tree
                   diffAfter == getGitChanges(files', nextTree, gitStagedPaths')
               IN  /\ Len(after) = Len(before) + 1
                   /\ SubSeq(after, 1, Len(before)) = before
                   /\ Len(commit.changes) = Cardinality(EffectivelyStaged)
                   /\ {<<commit.changes[i].path, commit.changes[i].type>> :
                          i \in 1..Len(commit.changes)}
                      = {<<path, ExpectedKind(path)>> : path \in EffectivelyStaged}
                   /\ gitStagedPaths' = <<>>
                   /\ files' = files
                   /\ \A path \in EffectivelyStaged :
                         /\ \A i \in 1..Len(diffAfter) : diffAfter[i].path # path
                         /\ IF ExpectedKind(path) = "deleted"
                            THEN path \notin DOMAIN nextTree
                            ELSE /\ path \in DOMAIN nextTree
                                 /\ nextTree[path] = WorkingContent(path)]_vars

\* C3 (what holds): the same, except that a staged path named as an inherited
\* property is recorded as modified whether it was added, deleted or modified,
\* and that the deletion of such a path is not applied to the tree.
C3_CommitRecordsOwnPaths ==
  /\ [](\A message \in MessageInputs :
          (~Blank(message) /\ EffectivelyStaged # {})
            => commitGitChangesReturns(message).ok)
  /\ [][\A message \in MessageInputs :
          (~Blank(message) /\ EffectivelyStaged # {} /\ commitGitChanges(message))
            => LET before    == gitBranches[gitCurrentBranch].commits
                   after     == gitBranches'[gitCurrentBranch].commits
                   commit    == after[Len(after)]
                   nextTree  == gitBranches'[gitCurrentBranch].tree
                   diffAfter == getGitChanges(files', nextTree, gitStagedPaths')
                   Inherited(path) == path \in ObjectPrototypeKeys
               IN  /\ Len(after) = Len(before) + 1
                   /\ SubSeq(after, 1, Len(before)) = before
                   /\ Len(commit.changes) = Cardinality(EffectivelyStaged)
                   /\ {<<commit.changes[i].path, commit.changes[i].type>> :
                          i \in 1..Len(commit.changes)}
                      = {<<path, IF Inherited(path) THEN "modified" ELSE ExpectedKind(path)>> :
                           path \in EffectivelyStaged}
                   /\ gitStagedPaths' = <<>>
                   /\ files' = files
                   /\ \A path \in EffectivelyStaged :
                         IF ExpectedKind(path) = "deleted"
                         THEN IF Inherited(path)
                              THEN path \in DOMAIN nextTree
                              ELSE /\ path \notin DOMAIN nextTree
                                   /\ \A i \in 1..Len(diffAfter) : diffAfter[i].path # path
                         ELSE /\ path \in DOMAIN nextTree
                              /\ nextTree[path] = WorkingContent(path)
                              /\ \A i \in 1..Len(diffAfter) : diffAfter[i].path # path]_vars

\* The file valueOf was committed and then deleted, and the deletion was
\* committed: the last commit records the path as modified and the tree
\* still has it
C3_InheritedNameDeleted ==
  LET commits == gitBranches[gitCurrentBranch].commits
  IN  /\ Len(commits) = 2
      /\ \A i \in 1..Len(files) : files[i].path # ValueOf
      /\ commits[Len(commits)].changes = <<[path |-> ValueOf, type |-> "modified"]>>
      /\ ValueOf \in DOMAIN currentTree
      /\ gitStagedPaths = <<>>

\* A commit recorded a staged deletion and left another change pending
C3_PartialCommitMade ==
  LET commits == gitBranches[gitCurrentBranch].commits
      commit  == commits[Len(commits)]
  IN  /\ commits # <<>>
      /\ Len(commit.changes) = 1
      /\ commit.changes[1].type = "deleted"
      /\ commit.changes[1].path \notin DOMAIN currentTree
      /\ gitStagedPaths = <<>>
      /\ PendingChanges

\* C4: a commit with a blank or whitespace-only message is rejected with an
\* error and leaves the staged paths, the branches and the files unchanged,
\* whatever is staged.
C4_BlankMessageRejected ==
  /\ [](\A message \in MessageInputs :
          Blank(message) => /\ ~commitGitChangesReturns(message).ok
                            /\ commitGitChangesReturns(message).error # "")
  /\ [][\A message \in MessageInputs :
          (Blank(message) /\ commitGitChanges(message))
            => UNCHANGED <<gitStagedPaths, gitBranches, gitCurrentBranch, files>>]_vars

\* Changes are staged, so that a message is all a commit needs, and the empty
\* and the whitespace-only message are both rejected
C4_BlankMessageWithStagedChanges ==
  /\ EffectivelyStaged # {}
  /\ commitGitChangesReturns(<<"m">>).ok
  /\ ~commitGitChangesReturns(<<>>).ok
  /\ ~commitGitChangesReturns(<<" ">>).ok

\* C5: a commit with a non-blank message is rejected with 'Stage at least one
\* change before committing.' when no staged path differs, staged paths whose
\* change has been reverted included; the branches, the staged paths and the
\* files stay as they are.
C5_NothingStagedRejected ==
  /\ [](\A message \in MessageInputs :
          (~Blank(message) /\ EffectivelyStaged = {})
            => commitGitChangesReturns(message)
                 = Failed("Stage at least one change before committing."))
  /\ [][\A message \in MessageInputs :
          (~Blank(message) /\ EffectivelyStaged = {} /\ commitGitChanges(message))
            => UNCHANGED <<gitStagedPaths, gitBranches, gitCurrentBranch, files>>]_vars

\* A path is staged whose change has been reverted, another change is pending
\* and not staged, and the commit is rejected
C5_OnlyStalePathsStaged ==
  /\ gitStagedPaths # <<>>
  /\ EffectivelyStaged = {}
  /\ PendingChanges
  /\ ~commitGitChangesReturns(<<"m">>).ok

\* C6 (as stated, refuted): for every branch name, switchBranch fails whenever
\* the working set differs from the current branch tree.
C6_SwitchFailsForEveryName ==
  \A name \in BranchNameInputs : PendingChanges => ~switchGitBranchReturns(name).ok

\* C6 (amended): whenever the working set differs from the current branch
\* tree, switchBranch fails for every name that does not sanitize to the
\* current branch, and for every name it leaves the current branch, the files
\* and the staged paths unchanged.
C6_SwitchBlockedByPendingChanges ==
  /\ [](\A name \in BranchNameInputs :
          (PendingChanges /\ sanitizeBranchName(name) # gitCurrentBranch)
            => ~switchGitBranchReturns(name).ok)
  /\ [][\A name \in BranchNameInputs :
          (PendingChanges /\ switchGitBranch(name))
            => UNCHANGED <<gitCurrentBranch, files, gitStagedPaths>>]_vars

\* Changes are pending, one of them staged, another branch exists, and the
\* switch to it is refused
C6_SwitchRefused ==
  /\ PendingChanges
  /\ gitStagedPaths # <<>>
  /\ gitCurrentBranch = Main
  /\ Dev \in DOMAIN gitBranches
  /\ switchGitBranchReturns(Dev)
       = Failed("Commit or unstage changes before switching branches.")

\* C7: a switch to an existing branch other than the current one, with no
\* pending change, succeeds; afterwards the working set has exactly one file
\* per path of the target tree, with content and saved content equal to the
\* tree value, nothing is staged, the branches are as before, the target is
\* current, and the diff is empty.
C7_SwitchReplacesWorkingSet ==
  /\ [](\A name \in BranchNameInputs :
          (/\ sanitizeBranchName(name) \in DOMAIN gitBranches
           /\ sanitizeBranchName(name) # gitCurrentBranch
           /\ ~PendingChanges)
            => switchGitBranchReturns(name).ok)
  /\ [][\A name \in BranchNameInputs :
          (/\ sanitizeBranchName(name) \in DOMAIN gitBranches
           /\ sanitizeBranchName(name) # gitCurrentBranch
           /\ ~PendingChanges
           /\ switchGitBranch(name))
            => LET tree == gitBranches[sanitizeBranchName(name)].tree
               IN  /\ Len(files') = Cardinality(DOMAIN tree)
                   /\ \A path \in DOMAIN tree :
                         \E i \in 1..Len(files') :
                            /\ files'[i].path = path
                            /\ files'[i].content = tree[path]
                            /\ files'[i].savedContent = tree[path]
                            /\ \A j \in 1..Len(files') : files'[j].path = path => j = i
                   /\ gitStagedPaths' = <<>>
                   /\ gitBranches' = gitBranches
                   /\ gitCurrentBranch' = sanitizeBranchName(name)
                   /\ Diff' = <<>>]_vars

\* The working set of two files was replaced by the two files of the tree of
\* a branch other than main
C7_WorkingSetReplaced ==
  /\ gitCurrentBranch = Dev
  /\ {files[i].id : i \in 1..Len(files)} = {3, 4}
  /\ DOMAIN currentTree = {PathA, PathB}
  /\ gitBranches[Main].tree # currentTree
  /\ \A i \in 1..Len(files) :
        /\ files[i].content = currentTree[files[i].path]
        /\ files[i].savedContent = currentTree[files[i].path]
  /\ gitStagedPaths = <<>>

\* The operation returned the result; it did not throw
Returned(result) == "thrown" \notin DOMAIN result

\* C8 (as stated, refuted by the code): a switch to a name that sanitizes to
\* the current branch succeeds, and a switch to a name that is invalid or
\* names no branch is rejected with a result {ok: false}; both leave the whole
\* state unchanged.
C8_UnknownNameRejected ==
  /\ [](\A name \in BranchNameInputs \cup {ValueOf} :
          /\ sanitizeBranchName(name) = gitCurrentBranch
               => switchGitBranchReturns(name) = Ok
          /\ sanitizeBranchName(name) \notin DOMAIN gitBranches
               => /\ ~switchGitBranchReturns(name).ok
                  /\ Returned(switchGitBranchReturns(name)))
  /\ [][\A name \in BranchNameInputs \cup {ValueOf} :
          (/\ \/ sanitizeBranchName(name) = gitCurrentBranch
              \/ sanitizeBranchName(name) \notin DOMAIN gitBranches
           /\ switchGitBranch(name))
            => UNCHANGED vars]_vars

\* C8 (what holds): a switch to a name that sanitizes to the current branch
\* succeeds, and a switch to a name that is invalid or names no branch does
\* not; both leave the whole state unchanged.
C8_SwitchWithoutEffect ==
  /\ [](\A name \in BranchNameInputs :
          /\ sanitizeBranchName(name) = gitCurrentBranch
               => switchGitBranchReturns(name) = Ok
          /\ sanitizeBranchName(name) \notin DOMAIN gitBranches
               => ~switchGitBranchReturns(name).ok)
  /\ [][\A name \in BranchNameInputs :
          (/\ \/ sanitizeBranchName(name) = gitCurrentBranch
              \/ sanitizeBranchName(name) \notin DOMAIN gitBranches
           /\ switchGitBranch(name))
            => UNCHANGED vars]_vars

\* On dev with changes pending, the name ' dev' is accepted and 'd!' rejected
C8_SwitchToCurrentWithPendingChanges ==
  /\ gitCurrentBranch = Dev
  /\ PendingChanges
  /\ switchGitBranchReturns(<<" ", "d", "e", "v">>) = Ok
  /\ switchGitBranchReturns(<<"d", "!">>) = Failed("Branch name is invalid.")

\* C9 (as stated, refuted by the code): the diff has exactly one change for
\* each path that differs between the base tree and the working set, of kind
\* added when only the working set has the path, deleted when only the tree
\* has it, modified when both have it with different content, and no change
\* for any other path.
C9_DiffReportsEachPath ==
  /\ \A path \in DiffPaths \cup {ValueOf} :
        IF ExpectedKind(path) = "null"
        THEN \A i \in 1..Len(Diff) : Diff[i].path # path
        ELSE \E i \in 1..Len(Diff) :
                /\ Diff[i].path = path
                /\ Diff[i].type = ExpectedKind(path)
                /\ \A j \in 1..Len(Diff) : Diff[j].path = path => j = i
  /\ \A i \in 1..Len(Diff) : Diff[i].path \in DiffPaths \cup {ValueOf}

\* C9 (what holds): the same for every path that is not the name of an
\* inherited property; a path that is such a name has one change when it
\* differs and none when it does not, and the kind of that change is
\* modified also when only one side has the path.
C9_DiffReportsEachDifference ==
  /\ \A path \in DiffPaths \cup {ValueOf} :
        IF ExpectedKind(path) = "null"
        THEN \A i \in 1..Len(Diff) : Diff[i].path # path
        ELSE \E i \in 1..Len(Diff) :
                /\ Diff[i].path = path
                /\ Diff[i].type = (IF path \in ObjectPrototypeKeys THEN "modified"
                                   ELSE ExpectedKind(path))
                /\ \A j \in 1..Len(Diff) : Diff[j].path = path => j = i
  /\ \A i \in 1..Len(Diff) : Diff[i].path \in DiffPaths \cup {ValueOf}

\* A file valueOf that the tree does not have is in the diff, staged
C9_InheritedNameAdded ==
  /\ ExpectedKind(ValueOf) = "added"
  /\ \E i \in 1..Len(Diff) : Diff[i].path = ValueOf /\ Diff[i].staged

\* The diff has an added, a deleted and a modified path at once, one of the
\* contents being empty
C9_AllKindsReported ==
  /\ {Diff[i].type : i \in 1..Len(Diff)} = {"added", "deleted", "modified"}
  /\ \E path \in DOMAIN currentTree :
        currentTree[path] = "" /\ ExpectedKind(path) = "modified"

\* C10: the staged flag of each change of the diff tells whether its path is
\* among the staged paths, and a staged path that does not differ has no
\* change in the diff.
C10_StagedFlagIsMembership ==
  /\ \A i \in 1..Len(Diff) : Diff[i].staged <=> Diff[i].path \in Range(gitStagedPaths)
  /\ \A path \in Range(gitStagedPaths) :
        ExpectedKind(path) = "null" => \A i \in 1..Len(Diff) : Diff[i].path # path

\* A staged change, an unstaged change and a staged path that does not differ
C10_StaleAndStagedTogether ==
  /\ \E i \in 1..Len(Diff) : Diff[i].staged
  /\ \E i \in 1..Len(Diff) : ~Diff[i].staged
  /\ \E path \in Range(gitStagedPaths) : ExpectedKind(path) = "null"

\* C11: stage(path) adds the normalized path to the staged paths when that
\* path differs between the current branch tree and the working set, and
\* changes the staged paths in no other case; the other staged paths, the
\* branches and the files stay as they are.
C11_StageAddsOnlyChangedPath ==
  /\ [](\A path \in StagePathInputs :
          IF normalizeWorkspacePath(path) \in ChangedPaths
          THEN /\ stageGitPathAccepts(path)
               /\ Range(stageGitPathNextStagedPaths(path))
                    = Range(gitStagedPaths) \cup {normalizeWorkspacePath(path)}
          ELSE ~stageGitPathAccepts(path))
  /\ [][\A path \in StagePathInputs :
          stageGitPath(path)
            => /\ IF normalizeWorkspacePath(path) \in ChangedPaths
                  THEN /\ Range(gitStagedPaths')
                            = Range(gitStagedPaths) \cup {normalizeWorkspacePath(path)}
                       /\ Len(gitStagedPaths') = Cardinality(Range(gitStagedPaths'))
                  ELSE gitStagedPaths' = gitStagedPaths
               /\ UNCHANGED <<gitBranches, gitCurrentBranch, files>>]_vars

\* The path e/a differs and is not staged, so that the stage of ' e\a ' adds
\* it; d/a does not differ, so that its stage is refused; and a staged path
\* does not differ
C11_StageAcceptsAndRefuses ==
  /\ PathB \in ChangedPaths \ Range(gitStagedPaths)
  /\ stageGitPathAccepts(<<" ", "e", "\\", "a", " ">>)
  /\ PathA \in WorkingPaths \ ChangedPaths
  /\ ~stageGitPathAccepts(PathA)
  /\ PathC \in Range(gitStagedPaths) \ ChangedPaths

\* C12: after stageAll the staged paths are exactly the paths that differ
\* between the current branch tree and the working set: every path that
\* differs is staged and no other path is.
C12_StageAllStagesExactlyTheDiff ==
  /\ [](/\ Range(stageAllGitChangesNextStagedPaths) = ChangedPaths
        /\ Len(stageAllGitChangesNextStagedPaths) = Cardinality(ChangedPaths))
  /\ [][stageAllGitChanges
          => /\ Range(gitStagedPaths') = ChangedPaths
             /\ UNCHANGED <<gitBranches, gitCurrentBranch, files>>]_vars

\* Before stageAll a path that differs is not staged and a staged path does
\* not differ
C12_StageAllAddsAndRemoves ==
  /\ ChangedPaths \ Range(gitStagedPaths) # {}
  /\ Range(gitStagedPaths) \ ChangedPaths # {}
  /\ stageAllGitChangesNextStagedPaths # gitStagedPaths

\* C13: addFile, addFolder, applyFileEdit, updateContent, renameFile,
\* renameFolder, deleteFile, save and createBranch leave the staged paths as
\* they are, so that a staged path stays staged when it stops differing, and
\* whenever a staged path differs the diff reports its change as staged.
C13_EditsKeepStagedPaths ==
  /\ [](\A path \in Range(gitStagedPaths) :
          path \in ChangedPaths
            => \E i \in 1..Len(Diff) : Diff[i].path = path /\ Diff[i].staged)
  /\ [][(\/ addFile(<<" ", "e", "\\", "a", " ">>, <<>>)
         \/ addFolder(<<"e">>)
         \/ \E id \in 1..(MaxFiles + 1) : renameFile(id, PathB)
         \/ renameFolder(<<"d">>, <<"e">>)
         \/ applyFileEdit(PathA, "1")
         \/ \E id \in 1..(MaxFiles + 1) : updateFileContent(id, "2")
         \/ \E id \in 1..(MaxFiles + 1) : saveFile(id)
         \/ \E id \in 1..(MaxFiles + 1) : deleteFile(id)
         \/ createGitBranch(Dev))
        => gitStagedPaths' = gitStagedPaths]_vars

\* The content of d/a was changed, the path staged and the content changed
\* back: the path is staged and does not differ, while another path differs
\* and is not staged
C13_StagedPathStoppedDiffering ==
  /\ PathA \in Range(gitStagedPaths)
  /\ PathA \in WorkingPaths
  /\ ExpectedKind(PathA) = "null"
  /\ ChangedPaths \ Range(gitStagedPaths) # {}

\* The name without its leading slashes
RECURSIVE WithoutLeadingSlashes(_)
WithoutLeadingSlashes(s) ==
  IF s # <<>> /\ Head(s) = "/" THEN WithoutLeadingSlashes(Tail(s)) ELSE s

\* A name that does not begin with a slash, with each run of slashes made one
\* slash and without trailing slashes
RECURSIVE InnerSlashesCollapsed(_)
InnerSlashesCollapsed(s) ==
  IF s = <<>> THEN <<>>
  ELSE IF Head(s) # "/" THEN <<Head(s)>> \o InnerSlashesCollapsed(Tail(s))
  ELSE IF WithoutLeadingSlashes(s) = <<>> THEN <<>>
  ELSE <<"/">> \o InnerSlashesCollapsed(WithoutLeadingSlashes(s))

\* The name trimmed and with each run of blanks replaced by '-'
TrimmedAndDashed(name) == ReplaceWhitespaceRuns(Trim(name))

\* The name under which a branch is kept: trimmed, dashed, and without empty
\* segments
ExpectedBranchName(name) ==
  InnerSlashesCollapsed(WithoutLeadingSlashes(TrimmedAndDashed(name)))

\* A step by createBranch(name) added one branch, newName, with the tree and
\* the commits of the current branch, and changed nothing else
BranchCreatedUnder(name, newName) ==
  /\ newName \notin DOMAIN gitBranches
  /\ DOMAIN gitBranches' = DOMAIN gitBranches \cup {newName}
  /\ gitBranches'[newName].tree = gitBranches[gitCurrentBranch].tree
  /\ gitBranches'[newName].commits = gitBranches[gitCurrentBranch].commits
  /\ \A other \in DOMAIN gitBranches : gitBranches'[other] = gitBranches[other]
  /\ UNCHANGED <<gitCurrentBranch, files, gitStagedPaths>>

\* C14 (as stated, refuted): a successful createBranch(name) adds one branch
\* under the name trimmed and with whitespace runs replaced by '-', with the
\* tree and the commits of the current branch, and changes nothing else.
C14_BranchAddedUnderTrimmedName ==
  [][\A name \in CreateNameInputs :
       (createGitBranchReturns(name).ok /\ createGitBranch(name))
         => BranchCreatedUnder(name, TrimmedAndDashed(name))]_vars

\* C14 (amended): a successful createBranch(name) adds one branch under the
\* name trimmed, with whitespace runs replaced by '-', runs of slashes made
\* one slash and leading and trailing slashes removed; the branch has the tree
\* and the commits of the current branch, whatever the working files hold;
\* the current branch, every other branch, the files and the staged paths are
\* unchanged.
C14_BranchAddedUnderNormalizedName ==
  [][\A name \in CreateNameInputs :
       (createGitBranchReturns(name).ok /\ createGitBranch(name))
         => BranchCreatedUnder(name, ExpectedBranchName(name))]_vars

\* With a commit made and a change pending on main, the branch d-v was
\* created from the name 'd  v': it has the tree and the commit of main, and
\* the pending change is not in its tree
C14_BranchCreatedWithPendingChanges ==
  /\ gitCurrentBranch = Main
  /\ <<"d", "-", "v">> \in DOMAIN gitBranches
  /\ gitBranches[<<"d", "-", "v">>] = gitBranches[Main]
  /\ gitBranches[Main].commits # <<>>
  /\ PendingChanges
  /\ gitStagedPaths # <<>>

\* A non-empty name of letters, digits, '.', '_', '/' and '-'
WellFormedName(name) ==
  name # <<>> /\ \A i \in 1..Len(name) : name[i] \in BranchNameChars

\* C15: createBranch(name) fails with an error and leaves the branches as
\* they are when the name, trimmed and dashed, is empty or has a character
\* other than letters, digits, '.', '_', '/' and '-', and when a branch of
\* the sanitized name exists; every branch name of every reachable state is
\* non-empty and made of those characters.
C15_CreateRejectsBadAndTakenNames ==
  /\ [](\A name \in DOMAIN gitBranches : WellFormedName(name))
  /\ [](\A name \in CreateNameInputs :
          (\/ ~WellFormedName(TrimmedAndDashed(name))
           \/ ExpectedBranchName(name) \in DOMAIN gitBranches)
            => /\ ~createGitBranchReturns(name).ok
               /\ createGitBranchReturns(name).error # "")
  /\ [][\A name \in CreateNameInputs :
          (/\ \/ ~WellFormedName(TrimmedAndDashed(name))
              \/ ExpectedBranchName(name) \in DOMAIN gitBranches
           /\ createGitBranch(name))
            => UNCHANGED gitBranches]_vars

\* Three branches exist; a blank name and the name 'd!' are rejected as
\* names, and '/dev' and 'd  v' as the names of existing branches
C15_EveryKindOfRejection ==
  /\ DOMAIN gitBranches = {Main, Dev, <<"d", "-", "v">>}
  /\ createGitBranchReturns(<<" ">>)
       = Failed("Branch name can only contain letters, numbers, ., _, -, and /.")
  /\ createGitBranchReturns(<<"d", "!">>)
       = Failed("Branch name can only contain letters, numbers, ., _, -, and /.")
  /\ createGitBranchReturns(<<"/", "d", "e", "v">>)
       = Failed(<<"Branch \"", Dev, "\" already exists.">>)
  /\ createGitBranchReturns(<<"d", " ", " ", "v">>)
       = Failed(<<"Branch \"", <<"d", "-", "v">>, "\" already exists.">>)

Ancestors(path) == {SubSeq(path, 1, k - 1) : k \in {i \in 1..Len(path) : path[i] = "/"}}

AllFolderPaths ==
  {folders[i] : i \in 1..Len(folders)} \cup UNION {Ancestors(files[i].path) : i \in 1..Len(files)}

AtOrUnder(path, folder) == path = folder \/ StartsWith(path, folder \o <<"/">>)

Under(path, folder) == StartsWith(path, folder \o <<"/">>)

\* renameFolder(fromPath, toPath) is not refused: both paths are non-empty
\* and differ, the target is not inside the folder, and there is a folder at
\* or under the old path
RenameFolderActs(fromPath, toPath) ==
  LET from == normalizeWorkspacePath(fromPath)
      to   == normalizeWorkspacePath(toPath)
  IN  /\ from # <<>> /\ to # <<>> /\ from # to
      /\ ~Under(to, from)
      /\ \E folder \in AllFolderPaths : AtOrUnder(folder, from)

\* path with -n put before the extension of its file name: before the last
\* dot of the name unless that dot begins the name
Suffixed(path, n) ==
  LET slashes == {i \in 1..Len(path) : path[i] = "/"}
      start   == IF slashes = {} THEN 1 ELSE 1 + CHOOSE i \in slashes : \A j \in slashes : j <= i
      dots    == {i \in (start + 1)..Len(path) : path[i] = "."}
      cut     == IF dots = {} THEN Len(path) + 1 ELSE CHOOSE i \in dots : \A j \in dots : j <= i
  IN  SubSeq(path, 1, cut - 1) \o <<"-">> \o ToDecimal(n) \o SubSeq(path, cut, Len(path))

\* The path a file takes for a desired path: the path itself when no file in
\* used has it, else the path with the least suffix that no file in used has
ExpectedUnique(path, used) ==
  IF path \notin used THEN path
  ELSE Suffixed(path, CHOOSE n \in 1..(Cardinality(used) + 1) :
                        /\ Suffixed(path, n) \notin used
                        /\ \A m \in 1..(n - 1) : Suffixed(path, m) \in used)

\* What renameFolder(fromPath, toPath) is to do to the files when the files
\* at the positions in moved are the ones to move: each moved file gets the
\* target path plus the remainder of its path, made unique among the paths of
\* the files that stay and the paths given to the moved files before it; the
\* other files stay as they are; no moved file has the path of another file
FilesMoved(fromPath, toPath, moved) ==
  LET from == normalizeWorkspacePath(fromPath)
      to   == normalizeWorkspacePath(toPath)
      Used(i) == {files[j].path : j \in (1..Len(files)) \ moved}
                   \cup {files'[j].path : j \in {m \in moved : m < i}}
  IN  /\ Len(files') = Len(files)
      /\ \A i \in moved :
            /\ files'[i].path
                 = ExpectedUnique(to \o SliceFrom(files[i].path, Len(from)), Used(i))
            /\ files'[i].id = files[i].id
            /\ files'[i].content = files[i].content
            /\ files'[i].savedContent = files[i].savedContent
            /\ \A j \in (1..Len(files)) \ {i} : files'[j].path # files'[i].path
      /\ \A i \in (1..Len(files)) \ moved : files'[i] = files[i]

\* C17 (as stated, refuted): a renameFolder that is not refused moves every
\* file whose path is the old path or begins with the old path and a slash to
\* the target path plus the remainder, made unique among the files that stay
\* and the files moved before it, so that no moved file has the path of
\* another file.
C17_FilesAtOrUnderFolderMoved ==
  [][\A input \in RenameFolderInputs \cup {<< <<"e">>, <<"d">> >>} :
        (RenameFolderActs(input[1], input[2]) /\ renameFolder(input[1], input[2]))
          => FilesMoved(input[1], input[2],
               {i \in 1..Len(files) :
                  AtOrUnder(files[i].path, normalizeWorkspacePath(input[1]))})]_vars

\* C17 (amended): in a working set of fewer than 1000 files, a renameFolder
\* that is not refused moves every file whose path begins with the old path
\* and a slash, and no other file, to the target path plus the remainder, made
\* unique among the files that stay and the files moved before it; no moved
\* file has the path of another file.
C17_FilesUnderFolderMoved ==
  [][\A input \in RenameFolderInputs \cup {<< <<"e">>, <<"d">> >>} :
        (/\ Len(files) < IndexLimit
         /\ RenameFolderActs(input[1], input[2])
         /\ renameFolder(input[1], input[2]))
          => FilesMoved(input[1], input[2],
               {i \in 1..Len(files) :
                  Under(files[i].path, normalizeWorkspacePath(input[1]))})]_vars

\* With src/a.ts, src/sub/b.ts and lib/a.ts, src has been renamed to lib:
\* the files are lib/a-1.ts, lib/sub/b.ts and lib/a.ts and no folder src is
\* left
C17_SrcRenamedToLib ==
  /\ Len(files) = 3
  /\ files[1].id = 1 /\ files[1].path = LibA1Ts /\ files[1].content = "1"
  /\ files[2].id = 2 /\ files[2].path = Lib \o <<"/", "s", "u", "b", "/", "b", ".", "t", "s">>
  /\ files[3].id = 3 /\ files[3].path = LibATs
  /\ folders = <<Lib, Lib \o <<"/", "s", "u", "b">> >>

\* renameFolder(fromPath, toPath) names the folder itself or a place inside
\* the folder as the target
RenameIntoItself(fromPath, toPath) ==
  LET from == normalizeWorkspacePath(fromPath)
      to   == normalizeWorkspacePath(toPath)
  IN  to = from \/ Under(to, from)

\* A result of the form {ok: false, error}
StructuredFailure(result) == result # NoItem /\ ~result.ok

FoldersRewritten(from, to) ==
  \A folder \in AllFolderPaths :
     AtOrUnder(folder, from) => to \o SliceFrom(folder, Len(from)) \in AllFolderPaths'

\* After the step no folder is at or under the path and no file is under it
PrefixGone(from) ==
  /\ \A folder \in AllFolderPaths' : ~AtOrUnder(folder, from)
  /\ \A i \in 1..Len(files') : ~Under(files'[i].path, from)

\* C19 (as stated, refuted): after a renameFolder that is not refused no
\* folder is at or under the old path and no file is under it, and every
\* folder that was at or under the old path is there with the old path
\* replaced by the target path.
C19_OldPrefixGone ==
  [][\A input \in RenameFolderInputs \cup {<< <<"e">>, <<"d">> >>} :
        (RenameFolderActs(input[1], input[2]) /\ renameFolder(input[1], input[2]))
          => /\ PrefixGone(normalizeWorkspacePath(input[1]))
             /\ FoldersRewritten(normalizeWorkspacePath(input[1]),
                                 normalizeWorkspacePath(input[2]))]_vars

\* C19 (amended): after a renameFolder that is not refused every folder that
\* was at or under the old path is there with the old path replaced by the
\* target path; and unless the old path lies inside the target path, no
\* folder is at or under the old path and no file is under it.
C19_OldPrefixGoneUnlessInsideTarget ==
  [][\A input \in RenameFolderInputs \cup {<< <<"e">>, <<"d">> >>} :
        (RenameFolderActs(input[1], input[2]) /\ renameFolder(input[1], input[2]))
          => /\ FoldersRewritten(normalizeWorkspacePath(input[1]),
                                 normalizeWorkspacePath(input[2]))
             /\ ~Under(normalizeWorkspacePath(input[1]), normalizeWorkspacePath(input[2]))
                  => PrefixGone(normalizeWorkspacePath(input[1]))]_vars

\* src/sub has been renamed to lib: its file is lib/b.ts, src is still a
\* folder and src/sub is not
C19_SubfolderMovedOut ==
  /\ \E i \in 1..Len(files) : files[i].id = 2 /\ files[i].path = Lib \o <<"/", "b", ".", "t", "s">>
  /\ \E i \in 1..Len(files) : files[i].id = 1 /\ files[i].path = SrcATs
  /\ Src \in AllFolderPaths
  /\ SrcSub \notin AllFolderPaths

\* The ids and paths renameFile is called with
RenameFileCalls == ((1..4) \X RenameFileInputs) \cup {<<IndexLimit + 1, PathA>>}

\* renameFile(id, path) is to change nothing: no file has the id, the path
\* is empty once normalized, or the path made unique among the other files
\* is the path the file has
RenameFileSkips(id, path) ==
  LET to     == normalizeWorkspacePath(path)
      others == {files[j].path : j \in {k \in 1..Len(files) : files[k].id # id}}
  IN  \/ \A i \in 1..Len(files) : files[i].id # id
      \/ to = <<>>
      \/ \E i \in 1..Len(files) :
            files[i].id = id /\ ExpectedUnique(to, others) = files[i].path

\* What follows the last slash of a path
LastSegment(path) ==
  LET slashes == {i \in 1..Len(path) : path[i] = "/"}
  IN  IF slashes = {} THEN path
      ELSE SliceFrom(path, CHOOSE i \in slashes : \A j \in slashes : j <= i)

\* The step changed, of the files, only the path, the name and the language
\* of the file with the id, and its new path is the path of no other file
OnlyFileRenamed(id) ==
  /\ Len(files') = Len(files)
  /\ \A i \in 1..Len(files) :
        IF files[i].id = id
        THEN /\ files'[i].id = id
             /\ files'[i].content = files[i].content
             /\ files'[i].savedContent = files[i].savedContent
             /\ files'[i].path # files[i].path
             /\ files'[i].name = LastSegment(files'[i].path)
             /\ \A j \in (1..Len(files)) \ {i} : files'[j].path # files'[i].path
        ELSE files'[i] = files[i]

\* C20 (as stated, refuted): renameFile changes nothing when no file has the
\* id, when the path normalizes to empty, or when the path made unique among
\* the other files is the file's path; otherwise it changes only that file's
\* path, name and language, and the new path is the path of no other file.
C20_RenameFileFrame ==
  [][\A call \in RenameFileCalls :
        renameFile(call[1], call[2])
          => IF RenameFileSkips(call[1], call[2])
             THEN UNCHANGED vars
             ELSE OnlyFileRenamed(call[1])]_vars

\* C20 (amended): the same in a working set of fewer than 1000 files; besides
\* the renamed file, the step adds the folders of the new path to the folders
\* and leaves the active file and the version-control state as they are.
C20_RenameFileFrameBelowLimit ==
  [][\A call \in RenameFileCalls :
        (Len(files) < IndexLimit /\ renameFile(call[1], call[2]))
          => IF RenameFileSkips(call[1], call[2])
             THEN UNCHANGED vars
             ELSE /\ OnlyFileRenamed(call[1])
                  /\ \A i \in 1..Len(files') :
                        files'[i].id = call[1]
                          => {folders'[k] : k \in 1..Len(folders')}
                               = {folders[k] : k \in 1..Len(folders)}
                                   \cup Ancestors(files'[i].path)
                  /\ UNCHANGED <<activeFileId, gitBranches, gitCurrentBranch,
                                 gitStagedPaths>>]_vars

\* src/a.ts has been renamed to lib/a.ts, which a file has, and is lib/a-1.ts
\* with its id and its unsaved content; src is still a folder; renaming the
\* file to lib/a.ts again is one of the renames that change nothing
C20_FileRenamedBesideAnother ==
  /\ Len(files) = 3
  /\ files[1].id = 1 /\ files[1].path = LibA1Ts
  /\ files[1].content = "1" /\ files[1].savedContent = ""
  /\ files[2].path = SrcSubBTs
  /\ files[3].path = LibATs
  /\ folders = <<Lib, Src, SrcSub>>
  /\ RenameFileSkips(1, LibATs)
  /\ RenameFileSkips(4, LibATs)
  /\ RenameFileSkips(2, <<" ">>)
  /\ ~RenameFileSkips(2, LibATs)

\* The step appended one file for the path: its path is the normalized path,
\* or the path with the least suffix, that no file had; it is empty and
\* saved; it is the active file; the folders its path runs through are
\* folders; the files that were there are as they were
FileAdded(path) ==
  LET existing == {files[i].path : i \in 1..Len(files)}
      new      == files'[Len(files')]
  IN  /\ Len(files') = Len(files) + 1
      /\ SubSeq(files', 1, Len(files)) = files
      /\ new.path = ExpectedUnique(normalizeWorkspacePath(path), existing)
      /\ new.path \notin existing
      /\ new.name = LastSegment(new.path)
      /\ new.id \notin {files[i].id : i \in 1..Len(files)}
      /\ new.content = ""
      /\ new.savedContent = new.content
      /\ activeFileId' = new.id
      /\ {folders'[k] : k \in 1..Len(folders')}
           = {folders[k] : k \in 1..Len(folders)} \cup Ancestors(new.path)

\* C21 (as stated, refuted): addFile with a path that is not empty once
\* normalized appends one file whose path is the path made unique among the
\* paths of the files, empty and saved, makes it the active file, adds the
\* folders of its path and leaves the other files as they are.
C21_AddFileAppendsUniqueFile ==
  [][\A path \in FilePathInputs :
        (normalizeWorkspacePath(path) # <<>> /\ addFile(path, <<>>))
          => FileAdded(path)]_vars

\* C21 (amended): the same in a working set of fewer than 1000 files.
C21_AddFileAppendsUniqueFileBelowLimit ==
  [][\A path \in FilePathInputs :
        (/\ Len(files) < IndexLimit
         /\ normalizeWorkspacePath(path) # <<>>
         /\ addFile(path, <<>>))
          => FileAdded(path)]_vars

\* d/a-1 was added beside d/a: it is the last file, empty, saved and active
C21_SuffixedFileActive ==
  /\ Len(files) = 2
  /\ files[1].path = PathA
  /\ files[2].path = PathA \o <<"-", "1">>
  /\ files[2].content = "" /\ files[2].savedContent = ""
  /\ activeFileId = files[2].id
  /\ files[2].id # files[1].id

\* C22: addFile, addFolder, renameFile, renameFolder, applyFileEdit, stage and
\* unstage, called with a path that is empty once normalized, change nothing:
\* the files, the folders, the active file, the branches, the current branch,
\* the staged paths and the stored copy are as before.  (None of them has a
\* statement that throws on a string.)
C22_EmptyPathsIgnored ==
  /\ [](\A path \in EmptyPathInputs :
          /\ normalizeWorkspacePath(path) = <<>>
          /\ ~stageGitPathAccepts(path))
  /\ [][\A path \in EmptyPathInputs :
          (\/ addFile(path, <<>>)
           \/ addFolder(path)
           \/ \E id \in 1..(MaxFiles + 1) : id \in FileIds /\ renameFile(id, path)
           \/ \E other \in EmptyPathInputs \cup {<<"d">>, <<"e">>} :
                 renameFolder(path, other) \/ renameFolder(other, path)
           \/ \E content \in {"1", "2"} : applyFileEdit(path, content)
           \/ stageGitPath(path)
           \/ unstageGitPath(path))
            => UNCHANGED vars]_vars

\* There are two files, one changed and staged, and a folder to rename: each
\* of the operations would act on a path that is not empty
C22_EveryOperationCouldAct ==
  /\ Len(files) = 2
  /\ HasPath(PathA) /\ HasPath(PathB)
  /\ PathA \in Range(gitStagedPaths)
  /\ PathB \in ChangedPaths \ Range(gitStagedPaths)
  /\ <<"d">> \in AllFolderPaths
  /\ <<"e">> \in AllFolderPaths

\* The files but the ones with the id, in the order they are in
FilesWithout(id) ==
  LET kept == {i \in 1..Len(files) : files[i].id # id}
      RECURSIVE InOrder(_)
      InOrder(S) ==
        IF S = {} THEN <<>>
        ELSE LET last == CHOOSE i \in S : \A j \in S : j <= i
             IN  Append(InOrder(S \ {last}), files[last])
  IN  InOrder(kept)

\* C23: deleteFile(id) removes the file with the id and nothing else, and
\* keeps the other files in their order; when the active file is the one
\* removed, the first file left becomes the active file, or none when no
\* file is left; otherwise the active file is unchanged.  The folders and
\* the version-control state are unchanged.
C23_DeleteFileRemovesOneFile ==
  [][\A id \in DeleteIds :
        deleteFile(id)
          => /\ files' = FilesWithout(id)
             /\ Len(files') >= Len(files) - 1
             /\ activeFileId' = (IF activeFileId # id THEN activeFileId
                                 ELSE IF Len(files') = 0 THEN Null
                                 ELSE files'[1].id)
             /\ UNCHANGED <<folders, gitBranches, gitCurrentBranch, gitStagedPaths>>]_vars

\* The last of three files was active and was deleted: the first of the two
\* files left is the active file
C23_ActiveFileDeleted ==
  /\ Len(files) = 2
  /\ files[1].id = 1 /\ files[2].id = 2
  /\ activeFileId = 1
  /\ storage.activeFileId = <<1>>
  /\ storage.files = <<files>>
  /\ \E i \in 1..Len(folders) : folders[i] = <<"e">>

\* C24: in every state each folder that the path of a file runs through is
\* in the folder list; addFile, applyFileEdit, renameFile, renameFolder,
\* deleteFile and switchGitBranch keep it so.
C24_AncestorFoldersListed ==
  \A i \in 1..Len(files) :
    Ancestors(files[i].path) \subseteq {folders[k] : k \in 1..Len(folders)}

\* On dev, whose tree has only e/a, a file was added in e/d: the folders are
\* e and e/d, and the folders of main are gone
C24_SwitchedAndAddedNested ==
  /\ gitCurrentBranch = Dev
  /\ {files[i].path : i \in 1..Len(files)} = {PathB, PathEDA}
  /\ {folders[k] : k \in 1..Len(folders)} = {<<"e">>, <<"e", "/", "d">>}

\* A path in the form normalizeWorkspacePath gives: it has no backslash, it
\* neither starts nor ends with a slash, and no slash follows a slash
WellFormedPath(path) ==
  /\ \A i \in 1..Len(path) : path[i] # "\\"
  /\ path # <<>> => (path[1] # "/" /\ path[Len(path)] # "/")
  /\ \A i \in 1..(Len(path) - 1) : ~(path[i] = "/" /\ path[i + 1] = "/")

\* C25: normalizing a normalized path gives the same path, and a normalized
\* path has no backslash, no empty segment and no leading or trailing slash:
\* for every string of up to MaxRawLen characters, and for every folder and
\* every file path the store holds.
C25_NormalizeIdempotentAndWellFormed ==
  /\ \A raw \in RawPaths :
        /\ normalizeWorkspacePath(normalizeWorkspacePath(raw)) = normalizeWorkspacePath(raw)
        /\ WellFormedPath(normalizeWorkspacePath(raw))
  /\ \A k \in 1..Len(folders) :
        normalizeWorkspacePath(folders[k]) = folders[k] /\ WellFormedPath(folders[k])
  /\ \A i \in 1..Len(files) :
        normalizeWorkspacePath(files[i].path) = files[i].path /\ WellFormedPath(files[i].path)

\* The stored folder `\ /a/` was loaded as the folder a, and the file
\* `\e //a` was added as e/a
C25_RawFolderLoaded ==
  /\ \E k \in 1..Len(folders) : folders[k] = <<"a">>
  /\ \E i \in 1..Len(files) : files[i].path = PathB
  /\ normalizeWorkspacePath(<<"\\", " ", "/", "a">>) = <<"a">>
  /\ normalizeWorkspacePath(<<"/", "/", " ", "\\">>) = <<>>
  /\ normalizeWorkspacePath(<<"a", " ", "/", "a">>) = <<"a", "/", "a">>

\* The extension of a file name: what starts at its last dot, unless the name
\* has no dot or its only dot begins it
ExtensionOf(name) ==
  LET dots == {i \in 2..Len(name) : name[i] = "."}
  IN  IF dots = {} THEN <<>>
      ELSE SubSeq(name, CHOOSE i \in dots : \A j \in dots : j <= i, Len(name))

\* What precedes the last slash of a path
ParentOf(path) ==
  LET slashes == {i \in 1..Len(path) : path[i] = "/"}
  IN  IF slashes = {} THEN <<>>
      ELSE SubSeq(path, 1, (CHOOSE i \in slashes : \A j \in slashes : j <= i) - 1)

\* C26: when one of the candidates of a path with the suffixes -1 to -999 is
\* the path of no file, ensureUniquePath returns a path that no file has,
\* whose file name has the extension of the path's file name, in the path's
\* parent folder: for each path that is tried, against the files of each state.
C26_UniquePathKeepsExtension ==
  LET taken == {files[i].path : i \in 1..Len(files)}
  IN  \A path \in UniquePathInputs :
        LET p == normalizeWorkspacePath(path)
            r == ensureUniquePath(path, taken)
        IN  (\E n \in 1..(IndexLimit - 1) : Suffixed(p, n) \notin taken)
              => /\ r \notin taken
                 /\ ExtensionOf(LastSegment(r)) = ExtensionOf(LastSegment(p))
                 /\ ParentOf(r) = ParentOf(p)

\* .ts, .ts-1 and a.b.ts in d are taken, and the next paths for them are
\* .ts-2 and a.b-1.ts in d
C26_SuffixedBesideLeadingDot ==
  LET taken == {files[i].path : i \in 1..Len(files)}
  IN  /\ taken = {<<".", "t", "s">>, <<".", "t", "s", "-", "1">>,
                  <<"d", "/", "a", ".", "b", ".", "t", "s">>}
      /\ ensureUniquePath(<<".", "t", "s">>, taken) = <<".", "t", "s", "-", "2">>
      /\ ensureUniquePath(<<"d", "/", "a", ".", "b", ".", "t", "s">>, taken)
           = <<"d", "/", "a", ".", "b", "-", "1", ".", "t", "s">>

\* The language the table gives for an extension written without its dot
LanguageOfExtension(extension) ==
  IF extension \in {<<"t", "s">>, <<"t", "s", "x">>} THEN Typescript
  ELSE IF extension \in {<<"j", "s">>, <<"j", "s", "x">>} THEN Javascript
  ELSE IF extension = <<"c", "s", "s">> THEN Css
  ELSE IF extension = <<"h", "t", "m", "l">> THEN Html
  ELSE IF extension = <<"j", "s", "o", "n">> THEN Json
  ELSE IF extension = <<"m", "d">> THEN Markdown
  ELSE Plaintext

\* What follows the last dot of a name, or the name when it has no dot
AfterLastDot(name) ==
  LET dots == {i \in 1..Len(name) : name[i] = "."}
  IN  IF dots = {} THEN name
      ELSE SubSeq(name, (CHOOSE i \in dots : \A j \in dots : j <= i) + 1, Len(name))

\* C27 (as stated, refuted): the language of a file is the table's entry for
\* the extension of its name in lower case, the extension being empty for a
\* name with no dot after its first character.
C27_LanguageOfSplitExtension ==
  \A i \in 1..Len(files) :
    LET extension == ExtensionOf(files[i].name)
    IN  files[i].language
          = LanguageOfExtension(toLowerCase(SubSeq(extension, 2, Len(extension))))

\* C27 (amended): the language of a file is the table's entry for what
\* follows the last dot of its name, in lower case, or for the whole name in
\* lower case when the name has no dot.
C27_LanguageOfLastPiece ==
  \A i \in 1..Len(files) :
    files[i].language = LanguageOfExtension(toLowerCase(AfterLastDot(files[i].name)))

\* A file a.TS is typescript and a file .ts is typescript too
C27_UpperCaseAndLeadingDot ==
  /\ Len(files) = 2
  /\ files[1].name = <<"a", ".", "T", "S">> /\ files[1].language = Typescript
  /\ files[2].name = <<".", "t", "s">> /\ files[2].language = Typescript

\* The status fetches that have not settled
StatusCalls(p) == {call \in p.nativeCalls : call.kind = "status"}

\* C28: at most one status fetch is in flight; a step taken while a status
\* fetch is in flight starts none, whatever asks for the refresh, and the
\* settling of a fetch starts none either (nothing was queued); the status
\* shown comes from a fetch issued before every fetch still in flight, and
\* a status that replaces another comes from a later fetch.
C28_OneRefreshInFlight ==
  /\ [](Cardinality(StatusCalls(panel)) <= 1)
  /\ [](\A call \in StatusCalls(panel) :
          panel.nativeStatus # NoItem => panel.nativeStatus[1].call < call.id)
  /\ [][/\ StatusCalls(panel) # {} => StatusCalls(panel') \subseteq StatusCalls(panel)
        /\ (panel.nativeStatus # NoItem /\ panel'.nativeStatus # NoItem)
             => panel'.nativeStatus[1].call >= panel.nativeStatus[1].call]_allVars

\* A handler's refresh was dropped: after the first status was shown, the
\* handler's remote call resolved while a status fetch asked for by the timer
\* was in flight, the handler ended and released the busy flag, and the
\* timer's fetch is the only one in flight
C28_PostMutationRefreshDropped ==
  /\ panel.issuedCalls = 3
  /\ panel.nativeCalls = {[id |-> 3, kind |-> "status", repoPath |-> <<"r">>,
                           awaitedBy |-> "none"]}
  /\ panel.nativeRefreshInFlightRef
  /\ ~panel.nativeBusy
  /\ panel.nativeStatus = <<[repoPath |-> <<"r">>, call |-> 1]>>

(***************************************************************************)
(* The backend an operation of the panel is routed to                      *)
(***************************************************************************)

\* The availability probe succeeded and the repository path has a character
\* that is not a blank
RemoteSelected ==
  /\ panel.nativeAvailable
  /\ \E i \in 1..Len(panel.nativeRepoPath) : panel.nativeRepoPath[i] \notin Whitespace

\* The remote calls a step starts
CallsStarted == panel'.nativeCalls \ panel.nativeCalls

\* A step of an operation: routed to the remote adapter it starts the one
\* remote call of the operation and leaves the store as it is, routed to
\* the in-memory engine it starts no remote call
RoutedAs(kind) ==
  IF RemoteSelected
  THEN /\ Cardinality(CallsStarted) = 1
       /\ \A call \in CallsStarted : call.kind = kind
       /\ UNCHANGED vars
  ELSE /\ CallsStarted = {}
       /\ panel'.issuedCalls = panel.issuedCalls

\* C29: each of the seven operations goes to the remote adapter exactly when
\* the probe succeeded and the trimmed repository path is not empty, and to
\* the in-memory engine otherwise; a step that starts or settles a remote
\* call leaves the in-memory branches, current branch and staged paths as
\* they are, and a step that changes them starts no remote call and is
\* taken only while the in-memory engine is selected.
C29_OneBackendPerOperation ==
  [][/\ handleStageAll => RoutedAs("stageAll")
     /\ handleUnstageAll => RoutedAs("unstageAll")
     /\ handleStagePath(PathA) => RoutedAs("stage")
     /\ handleUnstagePath(PathA) => RoutedAs("unstage")
     /\ handleCommit => RoutedAs("commit")
     /\ handleCreateBranch => RoutedAs("createBranch")
     /\ (\E name \in {Main, Dev} : handleBranchSwitch(name)) => RoutedAs("switchBranch")
     /\ panel'.nativeCalls # panel.nativeCalls
          => UNCHANGED <<gitBranches, gitCurrentBranch, gitStagedPaths>>
     /\ <<gitBranches, gitCurrentBranch, gitStagedPaths>>'
            # <<gitBranches, gitCurrentBranch, gitStagedPaths>>
          => ~RemoteSelected /\ panel'.nativeCalls = panel.nativeCalls]_allVars

\* Both backends were used: a change staged in memory is still staged while
\* a remote commit for the repository r is in flight
C29_RemoteCommitAfterStagingInMemory ==
  /\ gitStagedPaths # <<>>
  /\ RemoteSelected
  /\ \E call \in panel.nativeCalls : call.kind = "commit" /\ call.repoPath = <<"r">>

(***************************************************************************)
(* A remote call of an operation that fails                                *)
(***************************************************************************)

\* The message shown for what a remote call rejected with
MessageShownFor(nativeError) ==
  CASE ~nativeError.isError        -> "Git operation failed."
    [] nativeError.message = ""    -> "Git operation failed."
    [] OTHER                       -> nativeError.message

\* C30: when the remote call of an operation rejects, the step that handles
\* it shows the message of the failure (the message of an Error that has
\* one, 'Git operation failed.' otherwise), releases the busy flag and
\* changes nothing else: the status shown, the commit message, the branch
\* draft, the repository path, the recent repositories and the store are as
\* they were, and no remote call is started.
C30_FailedMutationChangesNothing ==
  [][\A call \in panel.nativeCalls, nativeError \in NativeErrors :
       nativeMutationRejected(call, nativeError) =>
         /\ call.kind \in NativeMutations
         /\ panel'.error = <<MessageShownFor(nativeError)>>
         /\ ~panel'.nativeBusy
         /\ panel'.nativeStatus = panel.nativeStatus
         /\ panel'.commitMessage = panel.commitMessage
         /\ panel'.branchDraft = panel.branchDraft
         /\ panel'.nativeRepoPath = panel.nativeRepoPath
         /\ panel'.recentRepos = panel.recentRepos
         /\ panel'.nativeCalls = panel.nativeCalls \ {call}
         /\ UNCHANGED vars]_allVars

\* The remote call of an operation rejected with something that is not an
\* Error with a message: the status fetched before is still shown, the
\* commit message is still written, and the panel is not busy
C30_FailedMutationShown ==
  /\ panel.error = <<"Git operation failed.">>
  /\ panel.nativeStatus = <<[repoPath |-> <<"r">>, call |-> 1]>>
  /\ panel.commitMessage = <<"m">>
  /\ panel.issuedCalls = 2
  /\ panel.nativeCalls = {}
  /\ ~panel.nativeBusy

(***************************************************************************)
(* What the panel shows of a remote call that fails                        *)
(***************************************************************************)

\* C31 as stated: whenever a remote call rejects, be it the call of an
\* operation or a status fetch, the error shown once the step that handles
\* the rejection is over is the message of that failure.
C31_EveryFailureShown ==
  [][\A call \in panel.nativeCalls, nativeError \in NativeErrors :
       (\/ nativeMutationRejected(call, nativeError)
        \/ fetchNativeGitStatusRejected(call, nativeError))
         => panel'.error = <<MessageShownFor(nativeError)>>]_allVars

\* C31, what the panel does: the failure of the call of an operation and of
\* a status fetch no handler awaits is shown; the failure of the status
\* fetch a handler awaits after its call resolved is not: the handler ends
\* with no error and no status shown.
C31_FailureShownUnlessHandlerRefresh ==
  [][\A call \in panel.nativeCalls, nativeError \in NativeErrors :
       /\ nativeMutationRejected(call, nativeError)
            => panel'.error = <<MessageShownFor(nativeError)>>
       /\ fetchNativeGitStatusRejected(call, nativeError)
            => /\ panel'.nativeStatus = NoItem
               /\ panel'.error = IF call.awaitedBy = "none"
                                 THEN <<MessageShownFor(nativeError)>>
                                 ELSE NoItem]_allVars

\* The status fetch of a handler has failed and nothing tells: the first
\* status was shown, the call of an operation resolved, its status fetch
\* rejected, and the panel is at rest with no status and no error
C31_FailedRefreshNotShown ==
  /\ RemoteSelected
  /\ panel.issuedCalls = 3
  /\ panel.nativeCalls = {}
  /\ ~panel.nativeBusy
  /\ ~panel.nativeRefreshInFlightRef
  /\ panel.nativeStatus = NoItem
  /\ panel.error = NoItem

(***************************************************************************)
(* The busy flag and the remote calls in flight                            *)
(***************************************************************************)

\* The remote calls in flight other than the availability probe
CallsInFlight(p) == {call \in p.nativeCalls : call.kind # "probe"}

\* C38 as stated: while the remote backend is selected, the panel is busy
\* whenever a status fetch or the call of an operation has not settled.
C38_BusyWhileCallInFlight ==
  (RemoteSelected /\ CallsInFlight(panel) # {}) => panel.nativeBusy

\* C38, what the flag does: it is one boolean, set by every step that starts
\* a remote call and cleared only by a step in which a call settles, whatever
\* else is in flight; so it can be false while a call is in flight. A call of
\* an operation is started while the flag is set only by handleCommit, which
\* the message input calls on Ctrl/Cmd+Enter.
C38_BusySetByStartClearedBySettle ==
  [][/\ CallsStarted # {} => panel'.nativeBusy
     /\ (panel.nativeBusy /\ ~panel'.nativeBusy)
          => CallsInFlight(panel) \ CallsInFlight(panel') # {}
     /\ \A call \in CallsStarted :
          (panel.nativeBusy /\ call.kind \in NativeMutations) => call.kind = "commit"]_allVars

\* The flag was cleared under an operation: the remote backend is selected,
\* the call of an operation started by a button is in flight, and the panel
\* is not busy, its buttons enabled
C38_OperationInFlightNotBusy ==
  /\ RemoteSelected
  /\ ~panel.nativeBusy
  /\ \E call \in panel.nativeCalls : call.kind = "stageAll"

(***************************************************************************)
(* The status shown when the handler of an operation ends                  *)
(***************************************************************************)

\* The step ends the handler of an operation whose remote call resolved:
\* its call resolves and refreshNativeStatus() starts no fetch, or the fetch
\* it awaits resolves
HandlerEndsAfterSuccess ==
  \E call \in panel.nativeCalls :
    \/ nativeMutationResolved(call) /\ CallsStarted = {}
    \/ fetchNativeGitStatusResolved(call) /\ call.awaitedBy # "none"

\* The status shown after the step comes from a fetch that a handler started
\* when its remote call had resolved and that resolves in this step
ShownFetchedAfterOperation ==
  \E call \in panel.nativeCalls :
    /\ call.kind = "status" /\ call.awaitedBy # "none"
    /\ panel'.nativeStatus = <<[repoPath |-> call.repoPath, call |-> call.id]>>

\* C39 as stated: whenever the handler of an operation ends after its call
\* resolved, a status it leaves shown was fetched by a call issued after the
\* operation's call returned.
C39_StatusFetchedAfterOperation ==
  [][(HandlerEndsAfterSuccess /\ panel'.nativeStatus # NoItem)
       => ShownFetchedAfterOperation]_allVars

\* C39, what the handler does: when the call of an operation resolves and
\* no status fetch is in flight, the handler starts one, awaits it, and the
\* status shown when it resolves is the one it fetched; when a fetch is in
\* flight, asked for by a timer, the focus or an edit before the call
\* returned, the handler's refresh is dropped: it starts no fetch and ends
\* in the same step, the status shown stays the one shown before, and the
\* fetch in flight, issued before the call returned, is the next to be shown.
C39_FreshUnlessRefreshDropped ==
  [][\A call \in panel.nativeCalls :
       /\ nativeMutationResolved(call) =>
            IF StatusCalls(panel) = {}
            THEN /\ Cardinality(CallsStarted) = 1
                 /\ \A started \in CallsStarted :
                      /\ started.kind = "status" /\ started.awaitedBy = call.kind
                      /\ started.id > panel.issuedCalls
                      /\ started.repoPath = call.repoPath
                 /\ panel'.nativeBusy
            ELSE /\ CallsStarted = {}
                 /\ panel'.nativeStatus = panel.nativeStatus
                 /\ ~panel'.nativeBusy
                 /\ \A pending \in StatusCalls(panel') : pending.id <= panel.issuedCalls
       /\ (fetchNativeGitStatusResolved(call) /\ call.awaitedBy # "none")
            => ShownFetchedAfterOperation /\ ~panel'.nativeBusy]_allVars

\* The handler of an operation on the repository q has ended with its
\* refresh dropped: the status shown is still the first one, fetched before
\* the operation, and the only fetch in flight was asked for by a timer
\* while the operation's call was in flight
C39_EndedWithStatusFetchedBefore ==
  /\ panel.nativeStatus = <<[repoPath |-> <<"q">>, call |-> 1]>>
  /\ panel.error = NoItem
  /\ ~panel.nativeBusy
  /\ panel.issuedCalls = 3
  /\ \E pending \in panel.nativeCalls :
       /\ pending.kind = "status" /\ pending.awaitedBy = "none" /\ pending.id = 3
       /\ panel.nativeCalls = {pending}

(***************************************************************************)
(* The repository whose status is shown                                    *)
(***************************************************************************)

\* The repository path configured, without the blanks around it
ConfiguredPath(p) == TrimEnd(TrimStart(p.nativeRepoPath))

\* C40 as stated: with the remote backend selected, a status shown while no
\* status fetch is in flight was fetched for the path configured.
C40_StatusOfConfiguredPathShown ==
  (RemoteSelected /\ StatusCalls(panel) = {} /\ panel.nativeStatus # NoItem)
    => panel.nativeStatus[1].repoPath = ConfiguredPath(panel)

\* C40, what the panel does: a status fetch is made for the path configured
\* when it starts, or, started by the handler of an operation, for the path
\* of the operation's call, and its result is shown when it resolves,
\* whatever path is configured by then. A step that changes the configured path while the
\* remote backend stays or becomes selected starts a fetch for the new path
\* if no fetch is in flight, and starts none if one is: the result of the
\* fetch in flight, made for the path left, is then shown under the new
\* path until something else asks for a refresh.
C40_StatusOfPathAtFetch ==
  [][/\ \A started \in CallsStarted :
          started.kind = "status" =>
            IF started.awaitedBy = "none"
            THEN started.repoPath \in {ConfiguredPath(panel), ConfiguredPath(panel')}
            ELSE \E call \in panel.nativeCalls \ panel'.nativeCalls :
                   call.kind = started.awaitedBy /\ call.repoPath = started.repoPath
     /\ \A call \in StatusCalls(panel) :
          fetchNativeGitStatusResolved(call) =>
            /\ panel'.nativeStatus[1].repoPath = call.repoPath
            /\ StatusCalls(panel') = {}
            /\ ConfiguredPath(panel') = ConfiguredPath(panel)
     /\ (ConfiguredPath(panel') # ConfiguredPath(panel) /\ RemoteSelected')
          => IF StatusCalls(panel) = {}
             THEN \E started \in CallsStarted :
                    started.kind = "status" /\ started.repoPath = ConfiguredPath(panel')
             ELSE CallsStarted = {} /\ StatusCalls(panel') = StatusCalls(panel)]_allVars

\* The status of the repository left is shown: the path was changed from q
\* to r while the first fetch, for q, was in flight; the refresh for r was
\* dropped, the fetch resolved, and nothing is in flight
C40_StatusOfPathLeftShown ==
  /\ RemoteSelected
  /\ ConfiguredPath(panel) = <<"r">>
  /\ panel.nativeStatus = <<[repoPath |-> <<"q">>, call |-> 1]>>
  /\ panel.nativeCalls = {}
  /\ ~panel.nativeBusy
  /\ panel.issuedCalls = 1

(***************************************************************************)
(* Reloading: the store built again from what it has written               *)
(***************************************************************************)

SrcAppTsx == <<"s", "r", "c", "/", "A", "p", "p", ".", "t", "s", "x">>

SrcUtilsTs == <<"s", "r", "c", "/", "u", "t", "i", "l", "s", ".", "t", "s">>

SrcStylesCss == <<"s", "r", "c", "/", "s", "t", "y", "l", "e", "s", ".", "c", "s", "s">>

\* const initialFiles: the three files of a workspace that was never stored,
\* each saved as created (their contents are abridged)
initialFiles ==
  << createFile(1, SrcAppTsx, Typescript, "App", "App"),
     createFile(2, SrcUtilsTs, Typescript, "add", "add"),
     createFile(3, SrcStylesCss, Css, "body", "body") >>

\* normalizeStoredFile(value) for a value written by persistFiles: NoItem
\* when its path normalizes to nothing, else the file with its path
\* normalized
normalizeStoredFile(value) ==
  IF normalizeWorkspacePath(value.path) = <<>> THEN NoItem
  ELSE <<createFile(value.id, value.path, value.language, value.content,
                    value.savedContent)>>

\* A variant of loadFiles that keeps a stored list with no file in it
loadFilesKeepingEmpty(stored) ==
  IF stored = NoItem THEN initialFiles
  ELSE ConcatAll([i \in 1..Len(stored[1]) |-> normalizeStoredFile(stored[1][i])])

\* loadFiles() when localStorage holds the file list stored
loadFiles(stored) ==
  IF stored = NoItem THEN initialFiles
  ELSE LET fs == ConcatAll([i \in 1..Len(stored[1]) |-> normalizeStoredFile(stored[1][i])])
       IN  IF Len(fs) > 0 THEN fs ELSE initialFiles

\* loadActiveFileId(files) when localStorage holds the id stored
loadActiveFileId(fs, stored) ==
  IF stored # NoItem /\ \E i \in 1..Len(fs) : fs[i].id = stored[1]
  THEN stored[1]
  ELSE IF fs # <<>> THEN fs[1].id ELSE Null

\* JSON.parse of what persistGitState wrote: the branches are the entries of
\* the object
parseStoredGitState(stored) ==
  IF stored = NoItem THEN NoItem
  ELSE LET names == SetToSeq(DOMAIN stored[1].branches)
       IN  <<[currentBranch |-> stored[1].currentBranch,
              branches      |-> [i \in 1..Len(names) |->
                                   [name |-> names[i],
                                    value |-> <<stored[1].branches[names[i]]>>]],
              stagedPaths   |-> stored[1].stagedPaths]>>

\* What create() builds from localStorage: the files, then the folders, the
\* active file and the version-control state, each from the files
loadStore(store) ==
  LET fs       == loadFiles(store.files)
      gitState == loadGitState(fs, parseStoredGitState(store.git))
  IN  [files            |-> fs,
       folders          |-> loadFolders(fs, store.folders),
       activeFileId     |-> loadActiveFileId(fs, store.activeFileId),
       gitBranches      |-> gitState.branches,
       gitCurrentBranch |-> gitState.currentBranch,
       gitStagedPaths   |-> gitState.stagedPaths]

\* The store of a session that starts with the localStorage store: create()
\* loads the files and, from them, the folders, the active file and the
\* version-control state
StoreLoaded(store) ==
  /\ files = loadFiles(store.files)
  /\ folders = loadFolders(files, store.folders)
  /\ activeFileId = loadActiveFileId(files, store.activeFileId)
  /\ gitBranches = loadGitState(files, parseStoredGitState(store.git)).branches
  /\ gitCurrentBranch = loadGitState(files, parseStoredGitState(store.git)).currentBranch
  /\ gitStagedPaths = loadGitState(files, parseStoredGitState(store.git)).stagedPaths
  /\ storage = store

\* localStorage before the first session
EmptyStorage ==
  [files |-> NoItem, folders |-> NoItem, activeFileId |-> NoItem, git |-> NoItem]

\* A file is added while fewer than this many are left
ReloadFileLimit == 2

InitReload ==
  /\ StoreLoaded(EmptyStorage)
  /\ PanelAtRest

NextReload ==
  \/ StoreStep(updateFileContent(1, "2"))
  \/ StoreStep(saveFile(1))
  \/ StoreStep(\E id \in 1..3 : deleteFile(id))
  \/ StoreStep(Len(files) < ReloadFileLimit /\ addFile(PathB, <<>>))
  \/ StoreStep(\E id \in 2..3 : setActiveFile(id))
  \/ StoreStep(addFolder(<<"d">>))
  \/ StoreStep(stageGitPath(SrcAppTsx))
  \/ StoreStep(CommitInBounds(<<"m">>) /\ commitGitChanges(<<"m">>))
  \/ StoreStep(createGitBranch(Dev))
  \/ StoreStep(\E name \in {Main, Dev} : switchGitBranch(name))

SpecReload == InitReload /\ [][NextReload]_vars

\* The store as it is
StoreNow ==
  [files            |-> files,
   folders          |-> folders,
   activeFileId     |-> activeFileId,
   gitBranches      |-> gitBranches,
   gitCurrentBranch |-> gitCurrentBranch,
   gitStagedPaths   |-> gitStagedPaths]

\* C32 as stated: what the store would load from localStorage is the store
\* as it is: the same files, folders, active file, branches, current branch
\* and staged paths, hence the same diff.
C32_ReloadGivesTheStore == loadStore(storage) = StoreNow

\* C32, what reloading gives: the files and the active file are those of
\* the store unless no file is left, in which case the three initial files
\* come back; the folders are those of the store once a folder list was
\* written, and before that the folders of the files that are left; the
\* branches, the current branch and the staged paths are those of the store
\* once a version-control state was written, and before that a single
\* branch main whose tree is the saved content of the files, whatever the
\* store's tree is.
C32_ReloadGivesWhatWasWritten ==
  LET loaded == loadStore(storage)
  IN  /\ files # <<>> => loaded.files = files /\ loaded.activeFileId = activeFileId
      /\ files = <<>> => loaded.files = initialFiles /\ loaded.activeFileId = 1
      /\ (files # <<>> /\ storage.folders # NoItem) => loaded.folders = folders
      /\ storage.folders = NoItem
           => loaded.folders = inferFolderPathsFromFiles(loaded.files)
      /\ storage.git # NoItem
           => /\ loaded.gitBranches = gitBranches
              /\ loaded.gitCurrentBranch = gitCurrentBranch
              /\ loaded.gitStagedPaths = gitStagedPaths
      /\ storage.git = NoItem
           => /\ gitBranches = createDefaultGitState(initialFiles).branches
              /\ loaded.gitBranches = createDefaultGitState(loaded.files).branches
              /\ gitStagedPaths = <<>> /\ loaded.gitStagedPaths = <<>>
              /\ gitCurrentBranch = Main /\ loaded.gitCurrentBranch = Main

\* A saved edit is lost from the diff by reloading: no version-control state
\* was ever written, the store reports the file src/App.tsx as modified, and
\* the store reloaded would report no change
C32_SavedEditNotInReloadedDiff ==
  LET loaded == loadStore(storage)
  IN  /\ storage.git = NoItem
      /\ loaded.files = files
      /\ Len(getGitChanges(files, currentTree, gitStagedPaths)) = 1
      /\ getGitChanges(loaded.files, loaded.gitBranches[loaded.gitCurrentBranch].tree,
                       loaded.gitStagedPaths) = <<>>

(***************************************************************************)
(* The history of the branches                                             *)
(***************************************************************************)

\* The list earlier is the beginning of the list later
IsPrefix(earlier, later) ==
  /\ Len(earlier) <= Len(later)
  /\ \A i \in 1..Len(earlier) : later[i] = earlier[i]

\* C33: no step removes a branch, and every branch's commit list before the
\* step is the beginning of its commit list after it, commit for commit
\* unchanged; so a commit list of any earlier state is a prefix of the list
\* in every later state.
C33_HistoryAppendOnly ==
  [][\A name \in DOMAIN gitBranches :
       /\ name \in DOMAIN gitBranches'
       /\ IsPrefix(gitBranches[name].commits, gitBranches'[name].commits)]_vars

\* Two commits were made on main, and the branch dev, created between the
\* two, has the first of them only
C33_TwoCommitsAndABranch ==
  /\ Dev \in DOMAIN gitBranches
  /\ Len(gitBranches[Main].commits) = 2
  /\ gitBranches[Dev].commits = <<gitBranches[Main].commits[1]>>

(***************************************************************************)
(* ensureUniquePath when every candidate is taken                          *)
(***************************************************************************)

\* The suffixes -1 to -999 with which the path is the path of no file
FreeSuffixes(path, taken) ==
  {n \in 1..(IndexLimit - 1) : Suffixed(path, n) \notin taken}

\* C34: for each path that is tried, against the files of each state:
\* ensureUniquePath returns the normalized path when no file has it; the
\* candidate with the least free suffix when a file has it and some suffix
\* from -1 to -999 is free; and the normalized path itself, which a file
\* has, when all 999 candidates are taken.
C34_EnsureUniqueFailsOpen ==
  LET taken == {files[i].path : i \in 1..Len(files)}
  IN  \A path \in UniquePathInputs :
        LET p    == normalizeWorkspacePath(path)
            r    == ensureUniquePath(path, taken)
            free == FreeSuffixes(p, taken)
        IN  /\ p \notin taken => r = p
            /\ (p \in taken /\ free # {})
                 => \E n \in free : r = Suffixed(p, n) /\ \A m \in free : n <= m
            /\ (p \in taken /\ free = {}) => r = p /\ r \in taken

\* The path d/a and its 999 candidates are all taken, and ensureUniquePath
\* gives d/a for the path written ' d\a '
C34_AllCandidatesTaken ==
  LET taken == {files[i].path : i \in 1..Len(files)}
  IN  /\ Len(files) = IndexLimit
      /\ PathA \in taken
      /\ FreeSuffixes(PathA, taken) = {}
      /\ ensureUniquePath(<<" ", "d", "\\", "a", " ">>, taken) = PathA

(***************************************************************************)
(* The active file: the store starts from a stored active file id that is  *)
(* absent, the id of a file or the id of no file; files are added, edited, *)
(* deleted and made active, and committed on two branches                  *)
(***************************************************************************)

ActiveStoredFiles ==
  << createFile(1, PathA, Plaintext, "", ""), createFile(2, PathB, Plaintext, "", "") >>

\* The ids deleteFile and setActiveFile are called with: ids of files and
\* an id of no file
ActiveIds == 1..3

InitActive ==
  /\ \E storedActive \in {NoItem, <<2>>, <<3>>} :
        StoreLoaded([EmptyStorage EXCEPT !.files = <<ActiveStoredFiles>>,
                                         !.activeFileId = storedActive])
  /\ PanelAtRest

NextActive ==
  \/ StoreStep(\E id \in ActiveIds : setActiveFile(id))
  \/ StoreStep(Len(files) < MaxFiles /\ ~HasPath(PathB) /\ addFile(PathB, <<>>))
  \/ StoreStep(\E path \in {PathA, PathB} :
                  (HasPath(path) \/ Len(files) < MaxFiles) /\ applyFileEdit(path, ""))
  \/ StoreStep(\E id \in ActiveIds : deleteFile(id))
  \/ StoreStep(stageAllGitChanges)
  \/ StoreStep(CommitInBounds(<<"m">>) /\ commitGitChanges(<<"m">>))
  \/ StoreStep(createGitBranch(Dev))
  \/ StoreStep(\E name \in {Main, Dev} : switchGitBranch(name))

SpecActive == InitActive /\ [][NextActive]_vars

\* C35: in every state the active file id is the id of a file of the
\* working set, or it is none and the working set is empty.
C35_ActiveFileIsAFile ==
  \/ activeFileId = Null /\ files = <<>>
  \/ activeFileId # Null /\ \E i \in 1..Len(files) : files[i].id = activeFileId

\* On branch dev, with main's working set emptied and committed, the second
\* of two files is the active one
C35_SecondFileActiveAfterSwitch ==
  /\ gitCurrentBranch = Dev
  /\ gitBranches[Main].tree = [path \in {} |-> ""]
  /\ Len(files) = 2
  /\ activeFileId = files[2].id

(***************************************************************************)
(* What a commit leaves pending                                            *)
(***************************************************************************)

\* The changes of a list that are not staged
UnstagedOf(changes) ==
  LET NotStaged(change) == ~change.staged
  IN  SelectSeq(changes, NotStaged)

\* C36 (as stated): right after a successful commit the diff against the
\* current branch is exactly the list of the changes that were reported and
\* not staged before the commit, each with its kind and with staged = false.
C36_CommitLeavesUnstagedChanges ==
  [][\A message \in MessageInputs :
       (commitGitChangesReturns(message).ok /\ commitGitChanges(message))
         => LET before == getGitChanges(files, currentTree, gitStagedPaths)
                after  == getGitChanges(files', gitBranches'[gitCurrentBranch'].tree,
                                        gitStagedPaths')
            IN  after = UnstagedOf(before)]_vars

\* C36 (what holds): right after a successful commit the diff against the
\* current branch is the list of the changes reported before it that were not
\* staged, and of the staged ones whose path is named as an inherited
\* property and is the path of no file (the commit does not apply such a
\* deletion), each with its kind and with staged = false.
C36_CommitLeavesUnappliedChanges ==
  [][\A message \in MessageInputs :
       (commitGitChangesReturns(message).ok /\ commitGitChanges(message))
         => LET before == getGitChanges(files, currentTree, gitStagedPaths)
                after  == getGitChanges(files', gitBranches'[gitCurrentBranch'].tree,
                                        gitStagedPaths')
                Unapplied(change) ==
                  \/ ~change.staged
                  \/ /\ change.path \in ObjectPrototypeKeys
                     /\ \A i \in 1..Len(files) : files[i].path # change.path
                left   == SelectSeq(before, Unapplied)
            IN  after = [i \in 1..Len(left) |-> [left[i] EXCEPT !.staged = FALSE]]]_vars

\* The deletion of the file valueOf was staged and committed, the working
\* set and the staged paths are empty of it, and the diff still reports the
\* path, as modified and not staged
C36_CommittedDeletionStillReported ==
  LET commits == gitBranches[gitCurrentBranch].commits
  IN  /\ commits # <<>>
      /\ \E i \in 1..Len(commits[Len(commits)].changes) :
            commits[Len(commits)].changes[i].path = ValueOf
      /\ gitStagedPaths = <<>>
      /\ \A i \in 1..Len(files) : files[i].path # ValueOf
      /\ \E i \in 1..Len(getGitChanges(files, currentTree, gitStagedPaths)) :
            getGitChanges(files, currentTree, gitStagedPaths)[i]
              = [path |-> ValueOf, type |-> "modified", staged |-> FALSE]

(***************************************************************************)
(* Switching to a branch and back, with a file named __proto__ in the      *)
(* working set                                                             *)
(***************************************************************************)

InitSwitch ==
  /\ StoreLoadedFrom(StagingInitialFiles)
  /\ PanelAtRest

NextSwitch ==
  \/ StoreStep(\E content \in {"1", "2"} : applyFileEdit(PathA, content))
  \/ StoreStep(applyFileEdit(ProtoName, "1"))
  \/ StoreStep(\E id \in 1..(MaxFiles + 1) : id \in FileIds /\ deleteFile(id))
  \/ StoreStep(stageAllGitChanges)
  \/ StoreStep(CommitInBounds(<<"m">>) /\ commitGitChanges(<<"m">>))
  \/ StoreStep(createGitBranch(Dev))
  \/ StoreStep(\E name \in {Main, Dev} : switchGitBranch(name))

SpecSwitch == InitSwitch /\ [][NextSwitch]_vars

\* The working tree: the mapping from the path of each file to its content
WorkingTree(fs) ==
  [path \in {fs[i].path : i \in 1..Len(fs)} |->
     fs[CHOOSE i \in 1..Len(fs) :
          fs[i].path = path /\ \A j \in (i + 1)..Len(fs) : fs[j].path # path].content]

\* The working tree without the file named __proto__
VisibleWorkingTree(fs) ==
  [path \in DOMAIN WorkingTree(fs) \ {ProtoName} |-> WorkingTree(fs)[path]]

\* The files switchGitBranch makes of the tree of the branch `name`, in the
\* state after a step
FilesOfSwitchBack(name) ==
  createFilesFromTree(gitBranches'[name].tree,
                      FreshIds(files', Cardinality(DOMAIN gitBranches'[name].tree)))

\* In the state after a step, switchGitBranch accepts the name of the branch
\* `name`: the branch exists and nothing is reported as changed against the
\* current branch
SwitchBackAccepted(name) ==
  /\ sanitizeBranchName(name) = name
  /\ name \in DOMAIN gitBranches'
  /\ getGitChanges(files', gitBranches'[gitCurrentBranch'].tree, gitStagedPaths') = <<>>

\* C37 (as stated, refuted by the code): after every step that changes the
\* current branch, from A to B, a switch back to A is accepted, the working
\* tree of the files it makes is the working tree before the step, and A's
\* tree and commit list are as before the step; a switch changes no branch.
C37_SwitchAndBackRestoresWorkingTree ==
  [][(gitCurrentBranch' # gitCurrentBranch)
       => \A A \in {gitCurrentBranch} :
            /\ SwitchBackAccepted(A)
            /\ WorkingTree(FilesOfSwitchBack(A)) = WorkingTree(files)
            /\ gitBranches' = gitBranches]_vars

\* C37 (what holds): the same, for the working tree without the file named
\* __proto__: that file is no change against any branch, does not block the
\* switch, and is not there after the switch back.
C37_SwitchAndBackRestoresVisibleTree ==
  [][(gitCurrentBranch' # gitCurrentBranch)
       => \A A \in {gitCurrentBranch} :
            /\ SwitchBackAccepted(A)
            /\ WorkingTree(FilesOfSwitchBack(A)) = VisibleWorkingTree(files)
            /\ WorkingTree(files') = gitBranches[gitCurrentBranch'].tree
            /\ gitBranches' = gitBranches]_vars

\* On main, with a branch dev whose tree differs, a file named __proto__
\* has content, nothing is reported as changed, and the switch to dev is
\* accepted
C37_HiddenFileBeforeSwitch ==
  /\ gitCurrentBranch = Main
  /\ Dev \in DOMAIN gitBranches
  /\ gitBranches[Dev].tree # gitBranches[Main].tree
  /\ \E i \in 1..Len(files) : files[i].path = ProtoName /\ files[i].content = "1"
  /\ getGitChanges(files, currentTree, gitStagedPaths) = <<>>
  /\ switchGitBranchReturns(Dev).ok

====
